---------------------------- MODULE Spec2Model ----------------------------
(***************************************************************************)
(* A model of the spreadsheet formula engine (lib/formulaEngine, kept as   *)
(* src/unnamed/part_001) and of the recalculation effect that drives it    *)
(* (src/SpreadsheetGrid.tsx).                                              *)
(*                                                                         *)
(* A JavaScript string is a sequence of one-character strings, so that     *)
(* parsing, slicing, upper-casing and formatting are computed character by *)
(* character as the code computes them.  An absent string is the marker    *)
(* sequence Undefined, which no string equals.                             *)
(***************************************************************************)
EXTENDS Integers, Sequences, FiniteSets, TLC

VARIABLES
    rsOp,       \* resolver: the operation applied to the drawn input ("none" before)
    rsStr,      \* resolver: the string argument (a reference or a range)
    rsIdx,      \* resolver: the column index argument
    rsCells,    \* resolver: what parseRange returned
    rsRef,      \* resolver: what parseCellReference returned
    rsLabel,    \* resolver: what getColumnLabel returned
    evFormula,  \* evaluator: argument formula
    evCellId,   \* evaluator: argument currentCellId
    evCells,    \* evaluator: argument cells (the Map the caller owns)
    evCalls,    \* evaluator: number of calls made with these arguments
    evOut,      \* evaluator: completion of the first call
    evOut2,     \* evaluator: completion of the second call
    clock,      \* what new Date() reads
    cells,      \* grid: the active sheet's cell store
    history,    \* grid: the active sheet's undo history
    historyIndex, \* grid: the position in history of the last edit applied
    recalcPending, \* grid: the recalculation effect is scheduled (cells changed)
    editsDone,  \* grid: number of formula-bar edits so far
    passParity, \* grid: the parity of the number of runs of the recalculation effect
    copiedCells, \* grid: the clipboard: the entries of the Map, none when it is null
    opsDone,    \* grid: number of cut, paste, delete, fill and import operations so far
    sheetStates, \* workbook: the Map from a sheet's name to its state
    activeSheet, \* workbook: the name of the active sheet
    wbPending,  \* workbook: file reads and imports begun and not yet completed
    lastOp,    \* workbook: the sheet that was active when the last operation was begun
    wbOps,      \* workbook: number of operations begun so far
    spreadsheets, \* backend: the stored spreadsheets, by id
    beLast,     \* backend: the last call, with the spreadsheet it named as it was before
    beCalls,    \* backend: number of calls so far
    ktState,    \* KeyTips: state
    ktActiveTab, \* KeyTips: activeTab
    ktSequence, \* KeyTips: currentSequence
    ktTimeoutRef, \* KeyTips: the time at which timeoutRef's timer fires, none when null
    ktResets,   \* KeyTips: the 300 ms timers armed and not yet fired
    ktNow,      \* KeyTips: the time in milliseconds
    ktSeqNo,    \* KeyTips: number of sequences started so far
    ktAccepted, \* KeyTips: the time of the last accepted key of the sequence
    ktLast,     \* KeyTips: what brought the last return to idle about
    editRun     \* grid: the edits, undos and redos made in a row, with the
                \* cells before the first of the edits and after the last

vars == <<rsOp, rsStr, rsIdx, rsCells, rsRef, rsLabel,
          evFormula, evCellId, evCells, evCalls, evOut, evOut2, clock,
          cells, history, historyIndex, recalcPending, editsDone, passParity,
          copiedCells, opsDone, editRun,
          sheetStates, activeSheet, wbPending, lastOp, wbOps,
          spreadsheets, beLast, beCalls,
          ktState, ktActiveTab, ktSequence, ktTimeoutRef, ktResets, ktNow, ktSeqNo,
          ktAccepted, ktLast>>

rsVars == <<rsOp, rsStr, rsIdx, rsCells, rsRef, rsLabel>>
evVars == <<evFormula, evCellId, evCells, evCalls, evOut, evOut2, clock>>
gridVars == <<cells, history, historyIndex, recalcPending, editsDone, passParity,
              copiedCells, opsDone, editRun>>
wbVars == <<sheetStates, activeSheet, wbPending, lastOp, wbOps>>
beVars == <<spreadsheets, beLast, beCalls>>
ktVars == <<ktState, ktActiveTab, ktSequence, ktTimeoutRef, ktResets, ktNow, ktSeqNo,
            ktAccepted, ktLast>>

----------------------------------------------------------------------------
(* Strings *)

Str(s) == [i \in 1..Len(s) |-> SubSeq(s, i, i)]

Undefined == <<"undefined">>   \* an absent string
Null == [null |-> TRUE]         \* parseCellReference's null
NoMatch == <<>>                 \* String.prototype.match's null

UpperSeq == Str("ABCDEFGHIJKLMNOPQRSTUVWXYZ")
LowerSeq == Str("abcdefghijklmnopqrstuvwxyz")
DigitSeq == Str("0123456789")

UpperChars == {UpperSeq[i] : i \in 1..Len(UpperSeq)}
LowerChars == {LowerSeq[i] : i \in 1..Len(LowerSeq)}
DigitChars == {DigitSeq[i] : i \in 1..Len(DigitSeq)}

IndexIn(c, seq) == CHOOSE i \in 1..Len(seq) : seq[i] = c

\* String.prototype.charCodeAt for an upper-case letter ("A" is 65)
charCodeAt(c) == 64 + IndexIn(c, UpperSeq)

\* String.fromCharCode for 65..90
fromCharCode(n) == UpperSeq[n - 64]

DigitVal(c) == IndexIn(c, DigitSeq) - 1

toUpperCaseChar(c) == IF c \in LowerChars THEN UpperSeq[IndexIn(c, LowerSeq)] ELSE c
toLowerCaseChar(c) == IF c \in UpperChars THEN LowerSeq[IndexIn(c, UpperSeq)] ELSE c

toUpperCase(s) == [i \in 1..Len(s) |-> toUpperCaseChar(s[i])]
toLowerCase(s) == [i \in 1..Len(s) |-> toLowerCaseChar(s[i])]

\* s.slice(from) with a zero-based start, as substring(1) / slice(4, -1) use it
Drop(s, n) == IF n >= Len(s) THEN <<>> ELSE SubSeq(s, n + 1, Len(s))
Take(s, n) == IF n <= 0 THEN <<>> ELSE SubSeq(s, 1, IF n > Len(s) THEN Len(s) ELSE n)

\* expression.slice(n, -1)
SliceInner(s, n) == IF Len(s) - 1 <= n THEN <<>> ELSE SubSeq(s, n + 1, Len(s) - 1)

startsWith(s, p) == Len(s) >= Len(p) /\ SubSeq(s, 1, Len(p)) = p
endsWith(s, p) == Len(s) >= Len(p) /\ SubSeq(s, Len(s) - Len(p) + 1, Len(s)) = p

IsSpace(c) == c \in {" ", "\t", "\n", "\r"}

RECURSIVE trimStart(_)
trimStart(s) == IF Len(s) > 0 /\ IsSpace(s[1]) THEN trimStart(Tail(s)) ELSE s

RECURSIVE trimEnd(_)
trimEnd(s) == IF Len(s) > 0 /\ IsSpace(s[Len(s)]) THEN trimEnd(SubSeq(s, 1, Len(s) - 1)) ELSE s

trim(s) == trimEnd(trimStart(s))

\* s.split(sep) for a one-character separator: the sequence of parts
RECURSIVE split(_, _)
split(s, sep) ==
    IF \E i \in 1..Len(s) : s[i] = sep
    THEN LET i == CHOOSE k \in 1..Len(s) : s[k] = sep /\ \A j \in 1..(k - 1) : s[j] # sep
         IN <<Take(s, i - 1)>> \o split(Drop(s, i), sep)
    ELSE <<s>>

RECURSIVE join(_, _)
join(parts, sep) ==
    IF Len(parts) = 0 THEN <<>>
    ELSE IF Len(parts) = 1 THEN parts[1]
    ELSE parts[1] \o sep \o join(Tail(parts), sep)

\* the decimal digits of a natural number, and of an integer
RECURSIVE NatToStr(_)
NatToStr(n) == IF n < 10 THEN <<DigitSeq[n + 1]>> ELSE NatToStr(n \div 10) \o <<DigitSeq[(n % 10) + 1]>>

IntToStr(n) == IF n < 0 THEN <<"-">> \o NatToStr(-n) ELSE NatToStr(n)

RECURSIVE DigitsToNat(_)
DigitsToNat(s) == IF Len(s) = 0 THEN 0 ELSE DigitsToNat(SubSeq(s, 1, Len(s) - 1)) * 10 + DigitVal(s[Len(s)])

\* the length of the longest prefix of s made of characters of set
RECURSIVE PrefixLen(_, _)
PrefixLen(s, set) == IF Len(s) > 0 /\ s[1] \in set THEN 1 + PrefixLen(Tail(s), set) ELSE 0

----------------------------------------------------------------------------
(* Reference resolver *)

\* the loop of parseCellReference: col = col * 26 + (charCode - 64)
RECURSIVE colOfLetters(_)
colOfLetters(colStr) ==
    IF Len(colStr) = 0 THEN 0
    ELSE colOfLetters(SubSeq(colStr, 1, Len(colStr) - 1)) * 26 + (charCodeAt(colStr[Len(colStr)]) - 64)

\* ref.match(/^([A-Z]+)(\d+)$/): the two groups, or NoMatch
matchReference(ref) ==
    LET n == PrefixLen(ref, UpperChars)
        rest == Drop(ref, n)
    IN IF n > 0 /\ Len(rest) > 0 /\ PrefixLen(rest, DigitChars) = Len(rest)
       THEN <<Take(ref, n), rest>>
       ELSE NoMatch

parseCellReference(ref) ==
    LET match == matchReference(ref)
    IN IF match = NoMatch THEN Null
       ELSE [col |-> colOfLetters(match[1]) - 1, row |-> DigitsToNat(match[2]) - 1]

\* the label loop stepping by num / 26 alone
RECURSIVE getColumnLabelNoCarry(_)
getColumnLabelNoCarry(index) ==
    IF index < 26 THEN <<fromCharCode(65 + index)>>
    ELSE getColumnLabelNoCarry(index \div 26) \o <<fromCharCode(65 + (index % 26))>>

\* the while loop that builds a column label (inlined in parseRange)
RECURSIVE colLabel(_)
colLabel(num) ==
    IF num < 0 THEN <<>>
    ELSE colLabel((num \div 26) - 1) \o <<fromCharCode(65 + (num % 26))>>

RECURSIVE getColumnLabel(_)
getColumnLabel(index) ==
    IF index < 0 THEN <<>>
    ELSE getColumnLabel((index \div 26) - 1) \o <<fromCharCode(65 + (index % 26))>>

\* the cells pushed by the two nested for loops, rows outer, columns inner
RECURSIVE rangeRows(_, _, _, _)
RECURSIVE rangeCols(_, _, _)
\* the inner loop with col < endRef.col for its test
rangeColsExclusive(row, col, endCol) ==
    IF col >= endCol THEN <<>>
    ELSE <<colLabel(col) \o IntToStr(row + 1)>> \o rangeCols(row, col + 1, endCol)

rangeCols(row, col, endCol) ==
    IF col > endCol THEN <<>>
    ELSE <<colLabel(col) \o IntToStr(row + 1)>> \o rangeCols(row, col + 1, endCol)

rangeRows(row, endRow, startCol, endCol) ==
    IF row > endRow THEN <<>>
    ELSE rangeCols(row, startCol, endCol) \o rangeRows(row + 1, endRow, startCol, endCol)

parseRange(range) ==
    LET parts == split(range, ":")
        start == parts[1]
        end == IF Len(parts) >= 2 THEN parts[2] ELSE Undefined
    IN IF start = <<>> \/ end = Undefined \/ end = <<>> THEN <<>>
       ELSE LET startRef == parseCellReference(start)
                endRef == parseCellReference(end)
            IN IF startRef = Null \/ endRef = Null THEN <<>>
               ELSE rangeRows(startRef.row, endRef.row, startRef.col, endRef.col)

----------------------------------------------------------------------------
(* Numbers: a JavaScript number is a reduced fraction n/d (d > 0), NaN or     *)
(* +-Infinity; the zero with d = -1 is the negative zero.  Integers and the   *)
(* quotients of small integers are exact in a double, and those are the       *)
(* numbers the bounded inputs produce.                                        *)

Abs(x) == IF x < 0 THEN -x ELSE x

RECURSIVE Gcd(_, _)
Gcd(a, b) == IF b = 0 THEN a ELSE Gcd(b, a % b)

RECURSIVE Pow10(_)
Pow10(k) == IF k <= 0 THEN 1 ELSE 10 * Pow10(k - 1)

NaN == [k |-> "nan", n |-> 0, d |-> 1]
PosInf == [k |-> "inf", n |-> 1, d |-> 1]
NegInf == [k |-> "inf", n |-> -1, d |-> 1]
NegZero == [k |-> "fin", n |-> 0, d |-> -1]

\* the number num/den, den # 0 (a zero result is the positive zero)
Frac(num, den) ==
    LET g == Gcd(Abs(num), Abs(den))
        sgn == IF den < 0 THEN -1 ELSE 1
    IN [k |-> "fin", n |-> (sgn * num) \div g, d |-> (sgn * den) \div g]

Num(i) == [k |-> "fin", n |-> i, d |-> 1]

isNaN(x) == x.k = "nan"
IsFinite(x) == x.k = "fin"
IsZero(x) == x.k = "fin" /\ x.n = 0
Den(x) == Abs(x.d)
\* the sign bit: -1 for negative numbers, -Infinity and the negative zero
SignBit(x) == IF x.n < 0 \/ (x.n = 0 /\ x.d < 0) THEN -1 ELSE 1
Zero(sign) == IF sign < 0 THEN NegZero ELSE Num(0)
Inf(sign) == IF sign < 0 THEN NegInf ELSE PosInf

NumNeg(x) ==
    IF isNaN(x) THEN NaN
    ELSE IF IsZero(x) THEN Zero(-SignBit(x))
    ELSE [x EXCEPT !.n = -x.n]

NumAdd(x, y) ==
    IF isNaN(x) \/ isNaN(y) THEN NaN
    ELSE IF ~IsFinite(x) /\ ~IsFinite(y) THEN (IF x.n = y.n THEN x ELSE NaN)
    ELSE IF ~IsFinite(x) THEN x
    ELSE IF ~IsFinite(y) THEN y
    ELSE IF IsZero(x) /\ IsZero(y) THEN (IF SignBit(x) < 0 /\ SignBit(y) < 0 THEN NegZero ELSE Num(0))
    ELSE Frac(x.n * Den(y) + y.n * Den(x), Den(x) * Den(y))

NumSub(x, y) == NumAdd(x, NumNeg(y))

NumMul(x, y) ==
    IF isNaN(x) \/ isNaN(y) THEN NaN
    ELSE IF IsZero(x) \/ IsZero(y)
         THEN (IF ~IsFinite(x) \/ ~IsFinite(y) THEN NaN ELSE Zero(SignBit(x) * SignBit(y)))
    ELSE IF ~IsFinite(x) \/ ~IsFinite(y) THEN Inf(SignBit(x) * SignBit(y))
    ELSE Frac(x.n * y.n, Den(x) * Den(y))

\* IEEE division: x/0 is an infinity (0/0 is NaN), never an exception
NumDiv(x, y) ==
    IF isNaN(x) \/ isNaN(y) THEN NaN
    ELSE IF ~IsFinite(x) /\ ~IsFinite(y) THEN NaN
    ELSE IF ~IsFinite(x) THEN Inf(SignBit(x) * SignBit(y))
    ELSE IF ~IsFinite(y) THEN Zero(SignBit(x) * SignBit(y))
    ELSE IF IsZero(y) THEN (IF IsZero(x) THEN NaN ELSE Inf(SignBit(x) * SignBit(y)))
    ELSE IF IsZero(x) THEN Zero(SignBit(x) * SignBit(y))
    ELSE Frac(x.n * Den(y), Den(x) * y.n)

\* x < y; false when either is NaN
NumLt(x, y) ==
    IF isNaN(x) \/ isNaN(y) THEN FALSE
    ELSE IF ~IsFinite(x) THEN x.n < 0 /\ y # x
    ELSE IF ~IsFinite(y) THEN y.n > 0
    ELSE x.n * Den(y) < y.n * Den(x)

\* x === y on numbers (the two zeros are equal, NaN equals nothing)
NumEq(x, y) ==
    /\ ~isNaN(x) /\ ~isNaN(y)
    /\ x.k = y.k
    /\ IF IsFinite(x) THEN x.n * Den(y) = y.n * Den(x) ELSE x.n = y.n

\* the digits of the fractional part rem/den (0 <= rem < den), at most maxDigits of them
RECURSIVE FracDigits(_, _, _)
FracDigits(rem, den, maxDigits) ==
    IF rem = 0 \/ maxDigits = 0 THEN <<>>
    ELSE <<DigitSeq[((rem * 10) \div den) + 1]>> \o FracDigits((rem * 10) % den, den, maxDigits - 1)

\* Number.prototype.toString (a fraction that does not terminate is cut at
\* 16 digits, about what a double keeps)
NumToStr(x) ==
    IF isNaN(x) THEN Str("NaN")
    ELSE IF ~IsFinite(x) THEN (IF x.n > 0 THEN Str("Infinity") ELSE Str("-Infinity"))
    ELSE IF Den(x) = 1 THEN IntToStr(x.n)
    ELSE (IF x.n < 0 THEN <<"-">> ELSE <<>>)
         \o NatToStr(Abs(x.n) \div x.d) \o <<".">> \o FracDigits(Abs(x.n) % x.d, x.d, 16)

\* Number.prototype.toFixed(f) for 0 <= f <= 100: round half away from zero
toFixed(x, f) ==
    IF ~IsFinite(x) THEN NumToStr(x)
    ELSE LET scaled == Abs(x.n) * Pow10(f)
             q == scaled \div Den(x)
             r == scaled % Den(x)
             m == IF 2 * r >= Den(x) THEN q + 1 ELSE q
             digits == NatToStr(m)
             padded == IF Len(digits) <= f
                       THEN [i \in 1..(f + 1 - Len(digits)) |-> "0"] \o digits
                       ELSE digits
             intPart == SubSeq(padded, 1, Len(padded) - f)
             fracPart == SubSeq(padded, Len(padded) - f + 1, Len(padded))
         IN (IF x.n < 0 THEN <<"-">> ELSE <<>>) \o intPart
            \o (IF f > 0 THEN <<".">> \o fracPart ELSE <<>>)

\* the numeric prefix parseFloat and parseInt read: sign, digits, fraction, exponent
SignLen(s) == IF Len(s) > 0 /\ s[1] \in {"+", "-"} THEN 1 ELSE 0
SignOf(s) == IF Len(s) > 0 /\ s[1] = "-" THEN -1 ELSE 1

\* parseFloat(string)
parseFloat(string) ==
    LET Signed(sg, scaled) == IF sg < 0 THEN NumNeg(scaled) ELSE scaled
        Scaled(sg, mant, expVal) ==
            Signed(sg, IF expVal >= 0 THEN NumMul(mant, Num(Pow10(expVal)))
                       ELSE NumDiv(mant, Num(Pow10(-expVal))))
        \* the exponent part: e or E, a sign or none, and at least one digit
        ExpVal(afterMant, expBody) ==
            IF Len(afterMant) > 1 /\ afterMant[1] \in {"e", "E"} /\ PrefixLen(expBody, DigitChars) > 0
            THEN SignOf(Tail(afterMant)) * DigitsToNat(Take(expBody, PrefixLen(expBody, DigitChars)))
            ELSE 0
        Mantissa(intStr, fracStr) ==
            Frac(DigitsToNat(intStr) * Pow10(Len(fracStr)) + DigitsToNat(fracStr), Pow10(Len(fracStr)))
        Digits(sg, intStr, fracStr, afterMant) ==
            IF Len(intStr) = 0 /\ Len(fracStr) = 0 THEN NaN
            ELSE Scaled(sg, Mantissa(intStr, fracStr),
                        ExpVal(afterMant, Drop(afterMant, 1 + SignLen(Tail(afterMant)))))
        Fraction(sg, intStr, afterInt, nf) ==
            Digits(sg, intStr, Take(Tail(afterInt), nf), Drop(afterInt, 1 + nf))
        Integer(sg, intStr, afterInt) ==
            IF Len(afterInt) > 0 /\ afterInt[1] = "."
            THEN Fraction(sg, intStr, afterInt, PrefixLen(Tail(afterInt), DigitChars))
            ELSE Digits(sg, intStr, <<>>, afterInt)
        Body(sg, body, ni) ==
            IF startsWith(body, Str("Infinity")) THEN (IF sg < 0 THEN NegInf ELSE PosInf)
            ELSE Integer(sg, Take(body, ni), Drop(body, ni))
        Unsigned(sg, body) == Body(sg, body, PrefixLen(body, DigitChars))
        Trimmed(t) == Unsigned(SignOf(t), Drop(t, SignLen(t)))
    IN Trimmed(trimStart(string))

\* parseInt(string), radix 10
parseInt(string) ==
    LET Body(sg, body, ni) == IF ni = 0 THEN NaN ELSE Num(sg * DigitsToNat(Take(body, ni)))
        Unsigned(sg, body) == Body(sg, body, PrefixLen(body, DigitChars))
        Trimmed(t) == Unsigned(SignOf(t), Drop(t, SignLen(t)))
    IN Trimmed(trimStart(string))

----------------------------------------------------------------------------
(* The cell store: a Map from cell ids to CellData                          *)

CellData(value, formula, displayValue) ==
    [value |-> value, formula |-> formula, displayValue |-> displayValue]

\* Map.set
MapSet(store, key, data) == [id \in DOMAIN store \cup {key} |-> IF id = key THEN data ELSE store[id]]

\* a || b on strings: b when a is undefined or empty
OrElse(a, b) == IF a = Undefined \/ a = <<>> THEN b ELSE a

\* getCellValue without the isNaN test
getCellValueStrict(cellId, store) ==
    IF cellId \notin DOMAIN store THEN Num(0)
    ELSE parseFloat(OrElse(store[cellId].displayValue, store[cellId].value))

getCellValue(cellId, store) ==
    IF cellId \notin DOMAIN store THEN Num(0)
    ELSE LET OrZero(num) == IF isNaN(num) THEN Num(0) ELSE num
             cellData == store[cellId]
             value == OrElse(cellData.displayValue, cellData.value)
         IN OrZero(parseFloat(value))

getCellText(cellId, store) ==
    IF cellId \notin DOMAIN store THEN <<>>
    ELSE LET cellData == store[cellId]
         IN OrElse(cellData.displayValue, cellData.value)

----------------------------------------------------------------------------
(* Formula evaluator *)

\* how a call ends: it returns a string, or an exception leaves it
Return(v) == [type |-> "return", value |-> v]
Throw(e) == [type |-> "throw", value |-> Str(e)]

\* text.replace(/^["']|["']$/g, '')
QuoteChars == {"\"", "'"}
stripQuotes(text) ==
    LET t == IF Len(text) > 0 /\ text[1] \in QuoteChars THEN Tail(text) ELSE text
    IN IF Len(t) > 0 /\ t[Len(t)] \in QuoteChars THEN SubSeq(t, 1, Len(t) - 1) ELSE t

\* cellIds.reduce((acc, cellId) => acc + getCellValue(cellId, cells), 0)
RECURSIVE sumValues(_, _)
sumValues(cellIds, store) ==
    IF Len(cellIds) = 0 THEN Num(0)
    ELSE NumAdd(sumValues(SubSeq(cellIds, 1, Len(cellIds) - 1), store),
                getCellValue(cellIds[Len(cellIds)], store))

\* Math.min(...values) and Math.max(...values) of a non-empty list
RECURSIVE minValue(_, _)
minValue(cellIds, store) ==
    LET Smaller(v, m) == IF NumLt(v, m) \/ (NumEq(v, m) /\ SignBit(v) < 0) THEN v ELSE m
    IN IF Len(cellIds) = 1 THEN getCellValue(cellIds[1], store)
       ELSE Smaller(getCellValue(cellIds[1], store), minValue(Tail(cellIds), store))

RECURSIVE maxValue(_, _)
maxValue(cellIds, store) ==
    LET Larger(v, m) == IF NumLt(m, v) \/ (NumEq(v, m) /\ SignBit(v) > 0) THEN v ELSE m
    IN IF Len(cellIds) = 1 THEN getCellValue(cellIds[1], store)
       ELSE Larger(getCellValue(cellIds[1], store), maxValue(Tail(cellIds), store))

\* cellIds.filter(pred).length
countNumeric(cellIds, store) ==
    Cardinality({i \in 1..Len(cellIds) :
        LET IsNumeric(val) == val # <<>> /\ ~isNaN(parseFloat(val))
        IN IsNumeric(getCellText(cellIds[i], store))})

countNonEmpty(cellIds, store) ==
    Cardinality({i \in 1..Len(cellIds) : getCellText(cellIds[i], store) # <<>>})

\* an argument of CONCAT, LEN, UPPER, LOWER: a cell's text or a literal
argText(arg, store) ==
    IF parseCellReference(arg) # Null THEN getCellText(arg, store) ELSE stripQuotes(arg)

RECURSIVE concatArgs(_, _)
concatArgs(args, store) ==
    IF Len(args) = 0 THEN <<>>
    ELSE argText(trim(args[1]), store) \o concatArgs(Tail(args), store)

\* new Date().toLocaleDateString() and .toLocaleString(): the clock counts the
\* ticks since the first day, TicksPerDay of them a day
TicksPerDay == 2
toLocaleDateString(now) == Str("1/") \o NatToStr((now \div TicksPerDay) + 1) \o Str("/2026")
toLocaleString(now) ==
    toLocaleDateString(now) \o Str(", ") \o NatToStr(now % TicksPerDay) \o Str(":00:00 AM")

\* the aggregates without the test of cellIds.length: Math.min() of no
\* argument is Infinity, Math.max() is -Infinity and 0 / 0 is NaN
evalAggregateUnguarded(name, expression, store) ==
    LET Over(cellIds) ==
         CASE name = Str("SUM") -> Return(NumToStr(sumValues(cellIds, store)))
         [] name = Str("AVERAGE") ->
              Return(NumToStr(NumDiv(sumValues(cellIds, store), Num(Len(cellIds)))))
         [] name = Str("MIN") ->
              IF Len(cellIds) = 0 THEN Return(NumToStr(PosInf))
              ELSE Return(NumToStr(minValue(cellIds, store)))
         [] name = Str("MAX") ->
              IF Len(cellIds) = 0 THEN Return(NumToStr(NegInf))
              ELSE Return(NumToStr(maxValue(cellIds, store)))
         [] name = Str("COUNT") -> Return(NatToStr(countNumeric(cellIds, store)))
         [] name = Str("COUNTA") -> Return(NatToStr(countNonEmpty(cellIds, store)))
    IN Over(parseRange(SliceInner(expression, Len(name) + 1)))

evalAggregate(name, expression, store) ==
    LET Over(cellIds) ==
         CASE name = Str("SUM") -> Return(NumToStr(sumValues(cellIds, store)))
         [] name = Str("AVERAGE") ->
              IF Len(cellIds) = 0 THEN Return(Str("0"))
              ELSE Return(NumToStr(NumDiv(sumValues(cellIds, store), Num(Len(cellIds)))))
         [] name = Str("MIN") ->
              IF Len(cellIds) = 0 THEN Return(Str("0"))
              ELSE Return(NumToStr(minValue(cellIds, store)))
         [] name = Str("MAX") ->
              IF Len(cellIds) = 0 THEN Return(Str("0"))
              ELSE Return(NumToStr(maxValue(cellIds, store)))
         [] name = Str("COUNT") -> Return(NatToStr(countNumeric(cellIds, store)))
         [] name = Str("COUNTA") -> Return(NatToStr(countNonEmpty(cellIds, store)))
    IN Over(parseRange(SliceInner(expression, Len(name) + 1)))

evalRound(expression) ==
    LET args == split(SliceInner(expression, 6), ",")
    IN IF Len(args) # 2 THEN Return(Str("#VALUE!"))
       ELSE LET Rounded(value, decimals) ==
                    IF isNaN(value) \/ isNaN(decimals) THEN Return(Str("#VALUE!"))
                    ELSE IF decimals.n < 0 \/ decimals.n > 100
                         THEN Throw("RangeError: toFixed() digits argument must be between 0 and 100")
                    ELSE Return(toFixed(value, decimals.n))
            IN Rounded(parseFloat(args[1]), parseInt(args[2]))

evalText(name, expression, store) ==
    LET inner == SliceInner(expression, Len(name) + 1)
    IN CASE name = Str("CONCAT") -> Return(concatArgs(split(inner, ","), store))
         [] name = Str("LEN") -> Return(NatToStr(Len(argText(trim(inner), store))))
         [] name = Str("UPPER") -> Return(toUpperCase(argText(trim(inner), store)))
         [] name = Str("LOWER") -> Return(toLowerCase(argText(trim(inner), store)))

\* expression.startsWith(name + '(') && expression.endsWith(')')
isCall(expression, name) ==
    startsWith(expression, name \o Str("(")) /\ endsWith(expression, Str(")"))

\* the positions of the commas of s
Commas(s) == {i \in 1..Len(s) : s[i] = ","}

AllIn(s, set) == \A i \in 1..Len(s) : s[i] \in set

Max(S) == CHOOSE x \in S : \A y \in S : y <= x
Min(S) == CHOOSE x \in S : \A y \in S : x <= y

\* expression.match(/^IF\((.+),(.+),(.+)\)$/): the three groups, each greedy
\* in turn, or NoMatch
matchIf(expression) ==
    LET inner == SliceInner(expression, 3)
        firsts == {c1 \in Commas(inner) :
                     c1 >= 2 /\ \E c2 \in Commas(inner) : c2 >= c1 + 2 /\ c2 < Len(inner)}
    IN IF ~isCall(expression, Str("IF")) \/ firsts = {} THEN NoMatch
       ELSE LET c1 == Max(firsts)
                c2 == Max({c \in Commas(inner) : c >= c1 + 2 /\ c < Len(inner)})
            IN <<SubSeq(inner, 1, c1 - 1), SubSeq(inner, c1 + 1, c2 - 1),
                 SubSeq(inner, c2 + 1, Len(inner))>>

AlnumChars == UpperChars \cup DigitChars
CompareChars == {">", "<", "=", "!"}

\* condition.match(/([A-Z0-9]+)\s*([><=!]+)\s*(.+)/): the match that starts
\* leftmost, or NoMatch.  From a start the first group runs to the end of its
\* run of letters and digits; the operator gives its last character to the
\* third group when nothing else is left for it.
compMatchAt(s, i) ==
    LET run == PrefixLen(Drop(s, i - 1), AlnumChars)
        afterRun == Drop(s, i - 1 + run)
        sp1 == PrefixLen(afterRun, {" "})
        afterSp1 == Drop(afterRun, sp1)
        nOps == PrefixLen(afterSp1, CompareChars)
        afterOps == Drop(afterSp1, nOps)
        sp2 == PrefixLen(afterOps, {" "})
        rest == Drop(afterOps, sp2)
    IN IF run = 0 \/ nOps = 0 THEN NoMatch
       ELSE IF Len(rest) > 0 THEN <<Take(Drop(s, i - 1), run), Take(afterSp1, nOps), rest>>
       ELSE IF sp2 > 0 THEN <<Take(Drop(s, i - 1), run), Take(afterSp1, nOps), <<" ">>>>
       ELSE IF nOps >= 2
            THEN <<Take(Drop(s, i - 1), run), Take(afterSp1, nOps - 1), <<afterSp1[nOps]>>>>
       ELSE NoMatch

compMatch(condition) ==
    LET starts == {i \in 1..Len(condition) : compMatchAt(condition, i) # NoMatch}
    IN IF starts = {} THEN NoMatch ELSE compMatchAt(condition, Min(starts))

\* the switch with >= and <= deciding as > and < do
compareStrictly(cellValue, operator, compareValue) ==
    CASE operator = Str(">") \/ operator = Str(">=") -> NumLt(compareValue, cellValue)
      [] operator = Str("<") \/ operator = Str("<=") -> NumLt(cellValue, compareValue)
      [] operator = Str("==") \/ operator = Str("=") -> NumEq(cellValue, compareValue)
      [] operator = Str("!=") -> ~NumEq(cellValue, compareValue)
      [] OTHER -> FALSE

\* the switch on the operator; an operator it does not list leaves result false
compare(cellValue, operator, compareValue) ==
    CASE operator = Str(">") -> NumLt(compareValue, cellValue)
      [] operator = Str("<") -> NumLt(cellValue, compareValue)
      [] operator = Str(">=") -> NumLt(compareValue, cellValue) \/ NumEq(cellValue, compareValue)
      [] operator = Str("<=") -> NumLt(cellValue, compareValue) \/ NumEq(cellValue, compareValue)
      [] operator = Str("==") \/ operator = Str("=") -> NumEq(cellValue, compareValue)
      [] operator = Str("!=") -> ~NumEq(cellValue, compareValue)
      [] OTHER -> FALSE

\* the IF branch, once ifMatch and compMatch have matched
evalIf(ifMatch, comp, store) ==
    LET trueValue == trim(ifMatch[2])
        falseValue == trim(ifMatch[3])
        cellRef == comp[1]
        operator == comp[2]
        Chosen(result) == Return(IF result THEN stripQuotes(trueValue) ELSE stripQuotes(falseValue))
    IN Chosen(compare(getCellValue(cellRef, store), operator, parseFloat(comp[3])))

RangeChars == AlnumChars \cup {":"}

\* expression.match(/^VLOOKUP\((.+),([A-Z0-9:]+),(\d+),(.+)\)$/): the four
\* groups, or NoMatch
vlookupSplit(inner, c1) ==
    LET after1 == {c \in Commas(inner) : c > c1}
        c2 == IF after1 = {} THEN 0 ELSE Min(after1)
        after2 == {c \in Commas(inner) : c > c2}
        c3 == IF c2 = 0 \/ after2 = {} THEN 0 ELSE Min(after2)
    IN IF c1 < 2 \/ c2 = 0 \/ c3 = 0 \/ c2 = c1 + 1 \/ c3 = c2 + 1 \/ c3 = Len(inner)
          \/ ~AllIn(SubSeq(inner, c1 + 1, c2 - 1), RangeChars)
          \/ ~AllIn(SubSeq(inner, c2 + 1, c3 - 1), DigitChars)
       THEN NoMatch
       ELSE <<SubSeq(inner, 1, c1 - 1), SubSeq(inner, c1 + 1, c2 - 1),
              SubSeq(inner, c2 + 1, c3 - 1), SubSeq(inner, c3 + 1, Len(inner))>>

matchVlookup(expression) ==
    LET inner == SliceInner(expression, 8)
        firsts == {c1 \in Commas(inner) : vlookupSplit(inner, c1) # NoMatch}
    IN IF ~isCall(expression, Str("VLOOKUP")) \/ firsts = {} THEN NoMatch
       ELSE vlookupSplit(inner, Max(firsts))

\* cellIds[i] with a zero-based index: undefined outside the array
At(cellIds, i) == IF i >= 0 /\ i < Len(cellIds) THEN cellIds[i + 1] ELSE Undefined

\* the for loop over the rows of the table, from row on
RECURSIVE vlookupScan(_, _, _, _, _, _, _)
vlookupScan(row, numRows, numCols, columnIndex, lookupValue, cellIds, store) ==
    IF row >= numRows THEN Return(Str("#N/A"))
    ELSE IF getCellText(At(cellIds, row * numCols), store) = lookupValue
         THEN Return(getCellText(At(cellIds, row * numCols + columnIndex - 1), store))
    ELSE vlookupScan(row + 1, numRows, numCols, columnIndex, lookupValue, cellIds, store)

evalVlookup(vlookupMatch, store) ==
    LET lookupValue == stripQuotes(trim(vlookupMatch[1]))
        tableRange == vlookupMatch[2]
        columnIndex == parseInt(vlookupMatch[3]).n
        parts == split(tableRange, ":")
        Scan(cellIds, numCols) ==
            vlookupScan(0, Len(cellIds) \div numCols, numCols, columnIndex, lookupValue, cellIds, store)
        Table(cellIds, startRef, endRef) ==
            IF Len(cellIds) = 0 THEN Return(Str("#N/A"))
            ELSE Scan(cellIds, endRef.col - startRef.col + 1)
    IN Table(parseRange(tableRange), parseCellReference(parts[1]), parseCellReference(parts[2]))

----------------------------------------------------------------------------
(* eval(sanitized): the host's evaluation of a string of digits, + - * / ( ) *)
(* and '.', as strict-mode JavaScript.  Every SyntaxError and TypeError is    *)
(* the one outcome "throw".  A '/' where an operand is expected begins a      *)
(* regular-expression literal; the inputs of this model hold none.           *)

ArithChars == DigitChars \cup {"+", "-", "*", "/", "(", ")", "."}

\* expression.replace(/[^0-9+\-*/().]/g, '')
sanitize(expression) == SelectSeq(expression, LAMBDA c : c \in ArithChars)

Tok(t, v) == [t |-> t, v |-> v]
ErrTok == Tok("error", NaN)

\* the position of the first "*/" of s, or 0
CommentEnd(s) ==
    LET ends == {i \in 1..(Len(s) - 1) : s[i] = "*" /\ s[i + 1] = "/"}
    IN IF ends = {} THEN 0 ELSE Min(ends)

\* a numeric literal at the head of s: its length (0 when malformed) and value
numLiteral(s) ==
    LET ni == PrefixLen(s, DigitChars)
        hasDot == Len(s) > ni /\ s[ni + 1] = "."
        nf == IF hasDot THEN PrefixLen(Drop(s, ni + 1), DigitChars) ELSE 0
        len == ni + (IF hasDot THEN 1 + nf ELSE 0)
        legacyOctal == ni > 1 /\ s[1] = "0"
    IN IF (ni = 0 /\ nf = 0) \/ legacyOctal THEN [len |-> 0, v |-> NaN]
       ELSE [len |-> len,
             v |-> Frac(DigitsToNat(Take(s, ni)) * Pow10(nf) + DigitsToNat(SubSeq(s, ni + 2, ni + 1 + nf)),
                        Pow10(nf))]

RECURSIVE lex(_)
lex(s) ==
    IF Len(s) = 0 THEN <<>>
    ELSE IF startsWith(s, Str("//")) THEN <<>>
    ELSE IF startsWith(s, Str("/*"))
         THEN (IF CommentEnd(Drop(s, 2)) = 0 THEN <<ErrTok>>
               ELSE lex(Drop(s, 2 + CommentEnd(Drop(s, 2)) + 1)))
    ELSE IF startsWith(s, Str("++")) \/ startsWith(s, Str("--")) THEN <<ErrTok>>
    ELSE IF startsWith(s, Str("**")) THEN <<Tok("**", NaN)>> \o lex(Drop(s, 2))
    ELSE IF s[1] \in DigitChars \cup {"."}
         THEN (LET Literal(lit) == IF lit.len = 0 THEN <<ErrTok>>
                                   ELSE <<Tok("num", lit.v)>> \o lex(Drop(s, lit.len))
               IN Literal(numLiteral(s)))
    ELSE <<Tok(s[1], NaN)>> \o lex(Tail(s))

\* base ** exponent for an integer exponent
RECURSIVE NumPowNat(_, _)
NumPowNat(base, e) == IF e = 0 THEN Num(1) ELSE NumMul(base, NumPowNat(base, e - 1))

NumPow(base, exponent) ==
    IF IsFinite(exponent) /\ Den(exponent) = 1
    THEN (IF exponent.n >= 0 THEN NumPowNat(base, exponent.n)
          ELSE NumDiv(Num(1), NumPowNat(base, -exponent.n)))
    ELSE NaN

Fail == [ok |-> FALSE, v |-> NaN, rest |-> <<>>]
Ok(v, rest) == [ok |-> TRUE, v |-> v, rest |-> rest]
HeadIs(toks, t) == Len(toks) > 0 /\ toks[1].t = t

RECURSIVE parseAdditive(_)
RECURSIVE parseAddRest(_)
RECURSIVE parseMultiplicative(_)
RECURSIVE parseMulRest(_)
RECURSIVE parseExponent(_)
RECURSIVE parseUnary(_)
RECURSIVE parsePrimary(_)

parsePrimary(toks) ==
    IF HeadIs(toks, "num") THEN Ok(toks[1].v, Tail(toks))
    ELSE IF HeadIs(toks, "(")
         THEN (LET Closed(e) == IF e.ok /\ HeadIs(e.rest, ")") THEN Ok(e.v, Tail(e.rest)) ELSE Fail
               IN Closed(parseAdditive(Tail(toks))))
    ELSE Fail

parseUnary(toks) ==
    IF HeadIs(toks, "+") \/ HeadIs(toks, "-")
    THEN (LET Signed(u) == IF ~u.ok THEN Fail
                           ELSE Ok(IF toks[1].t = "-" THEN NumNeg(u.v) ELSE u.v, u.rest)
          IN Signed(parseUnary(Tail(toks))))
    ELSE parsePrimary(toks)

\* a unary expression is no left operand of ** (a SyntaxError)
parseExponent(toks) ==
    LET Raised(u, r) == IF r.ok THEN Ok(NumPow(u.v, r.v), r.rest) ELSE Fail
        Base(u) == IF ~u.ok \/ ~HeadIs(u.rest, "**") THEN u
                   ELSE IF HeadIs(toks, "+") \/ HeadIs(toks, "-") THEN Fail
                   ELSE Raised(u, parseExponent(Tail(u.rest)))
    IN Base(parseUnary(toks))

\* left-associative: the state is the value so far and the tokens left
parseMulRest(acc) ==
    IF acc.ok /\ (HeadIs(acc.rest, "*") \/ HeadIs(acc.rest, "/"))
    THEN (LET Step(r) ==
                  IF ~r.ok THEN Fail
                  ELSE parseMulRest(Ok(IF acc.rest[1].t = "*" THEN NumMul(acc.v, r.v) ELSE NumDiv(acc.v, r.v),
                                       r.rest))
          IN Step(parseExponent(Tail(acc.rest))))
    ELSE acc

parseMultiplicative(toks) == parseMulRest(parseExponent(toks))

parseAddRest(acc) ==
    IF acc.ok /\ (HeadIs(acc.rest, "+") \/ HeadIs(acc.rest, "-"))
    THEN (LET Step(r) ==
                  IF ~r.ok THEN Fail
                  ELSE parseAddRest(Ok(IF acc.rest[1].t = "+" THEN NumAdd(acc.v, r.v) ELSE NumSub(acc.v, r.v),
                                       r.rest))
          IN Step(parseMultiplicative(Tail(acc.rest))))
    ELSE acc

\* every operator at one level, applied in the order written
RECURSIVE parseFlatRest(_)
parseFlatRest(acc) ==
    IF acc.ok /\ (HeadIs(acc.rest, "+") \/ HeadIs(acc.rest, "-") \/ HeadIs(acc.rest, "*") \/ HeadIs(acc.rest, "/"))
    THEN (LET Apply(op, r) ==
                  CASE op = "+" -> NumAdd(acc.v, r.v)
                    [] op = "-" -> NumSub(acc.v, r.v)
                    [] op = "*" -> NumMul(acc.v, r.v)
                    [] op = "/" -> NumDiv(acc.v, r.v)
              Step(r) == IF ~r.ok THEN Fail ELSE parseFlatRest(Ok(Apply(acc.rest[1].t, r), r.rest))
          IN Step(parseExponent(Tail(acc.rest))))
    ELSE acc

parseLeftToRight(toks) == parseFlatRest(parseExponent(toks))

parseAdditive(toks) == parseAddRest(parseMultiplicative(toks))

\* a '/' where an operand is expected: a regular-expression literal
HasRegExpLiteral(src) ==
    LET Operand(toks) ==
            \E i \in 1..Len(toks) :
                toks[i].t = "/" /\ (i = 1 \/ toks[i - 1].t \in {"+", "-", "*", "/", "**", "("})
    IN Operand(lex(src))

\* eval(src).toString(): a source of comments alone evaluates to undefined,
\* whose toString is a TypeError
evalToString(src) ==
    LET Result(toks, e) ==
            IF Len(toks) = 0 THEN Throw("TypeError: Cannot read properties of undefined")
            ELSE IF e.ok /\ Len(e.rest) = 0 THEN Return(NumToStr(e.v))
            ELSE Throw("SyntaxError or TypeError")
        Parsed(toks) == Result(toks, parseAdditive(toks))
    IN Parsed(lex(src))

----------------------------------------------------------------------------
(* evaluateFormula *)

AggregateNames == <<Str("SUM"), Str("AVERAGE"), Str("MIN"), Str("MAX"), Str("COUNT"), Str("COUNTA")>>
TextNames == <<Str("CONCAT"), Str("LEN"), Str("UPPER"), Str("LOWER")>>

FirstCall(expression, names) ==
    LET hits == {i \in 1..Len(names) : isCall(expression, names[i])}
    IN IF hits = {} THEN 0 ELSE Min(hits)

\* TODAY matched by its prefix, not exactly
isTodayPrefix(expression) == startsWith(expression, Str("TODAY("))

\* expression === 'TODAY()' and expression === 'NOW()'
isToday(expression) == expression = Str("TODAY()")
isNow(expression) == expression = Str("NOW()")

\* the arithmetic fallback reading the cell its text begins with
evalFallbackResolving(expression, store) ==
    IF parseCellReference(Take(expression, 2)) # Null /\ Take(expression, 2) \in DOMAIN store
    THEN Return(NumToStr(getCellValue(Take(expression, 2), store)))
    ELSE IF sanitize(expression) # <<>> THEN evalToString(sanitize(expression))
    ELSE Return(Str("#NAME?"))

\* the arithmetic fallback and the final '#NAME?'; the cells are not consulted
evalFallback(expression, store) ==
    IF sanitize(expression) # <<>> THEN evalToString(sanitize(expression))
    ELSE Return(Str("#NAME?"))

\* the body of the try block: the first branch that matches decides
tryBlock(expression, store) ==
    LET ifMatch == matchIf(expression)
        vlookupMatch == matchVlookup(expression)
    IN IF FirstCall(expression, AggregateNames) # 0
       THEN evalAggregate(AggregateNames[FirstCall(expression, AggregateNames)], expression, store)
       ELSE IF isCall(expression, Str("ROUND")) THEN evalRound(expression)
       ELSE IF FirstCall(expression, TextNames) # 0
       THEN evalText(TextNames[FirstCall(expression, TextNames)], expression, store)
       ELSE IF isToday(expression) THEN Return(toLocaleDateString(clock))
       ELSE IF isNow(expression) THEN Return(toLocaleString(clock))
       ELSE IF ifMatch # NoMatch /\ compMatch(trim(ifMatch[1])) # NoMatch
       THEN evalIf(ifMatch, compMatch(trim(ifMatch[1])), store)
       ELSE IF vlookupMatch # NoMatch THEN evalVlookup(vlookupMatch, store)
       ELSE IF parseCellReference(expression) # Null
       THEN Return(NumToStr(getCellValue(expression, store)))
       ELSE evalFallback(expression, store)

\* catch (error) { return '#ERROR!' }
catchError(completion) ==
    IF completion.type = "throw" THEN Return(Str("#ERROR!")) ELSE completion

\* what the try block is given: formula.substring(1).trim().toUpperCase()
expressionOf(formula) == toUpperCase(trim(Drop(formula, 1)))

\* evaluateFormula without its try/catch
evaluateFormulaNoCatch(formula, currentCellId, store) ==
    IF ~startsWith(formula, Str("=")) THEN Return(formula)
    ELSE tryBlock(expressionOf(formula), store)

\* evaluateFormula normalising its argument before it tests for '='
evaluateFormulaTrimFirst(formula, currentCellId, store) ==
    IF ~startsWith(trim(formula), Str("=")) THEN Return(trim(formula))
    ELSE catchError(tryBlock(expressionOf(trim(formula)), store))

evaluateFormula(formula, currentCellId, store) ==
    IF ~startsWith(formula, Str("=")) THEN Return(formula)
    ELSE catchError(tryBlock(expressionOf(formula), store))

\* evaluateFormula caching its result in the current cell
storeAfterEvaluateCaching(formula, currentCellId, store) ==
    MapSet(store, currentCellId,
           CellData(<<>>, formula, evaluateFormula(formula, currentCellId, store).value))

\* what the call does to the Map it is handed: it calls cells.get alone, and
\* assigns to no CellData it reads
storeAfterEvaluate(formula, currentCellId, store) == store

----------------------------------------------------------------------------
(* The resolver, applied to a drawn input *)

MaxCol == 705

RefParts ==
    {Str(""), Str("A1"), Str("B2"), Str("A2"), Str("C1"), Str("a1"), Str("1A"),
     Str("AA3"), Str("Z10"), Str("A"), Str("A0"), Str("B$2")}

ColumnLetters ==
    {<<a>> : a \in {"A", "B", "Y", "Z"}}
    \cup {<<a, b>> : a \in {"A", "B", "Z"}, b \in {"A", "M", "Z"}}
    \cup {Str("AAA"), Str("ABC")}

RefInputs == {l \o r : l \in ColumnLetters, r \in {Str("1"), Str("20"), Str("07")}}

RangeInputs ==
    RefParts
    \cup {a \o Str(":") \o b : a \in RefParts, b \in RefParts}
    \cup {a \o Str(":") \o b \o Str(":") \o c :
            a \in {Str("A1"), Str("B2"), Str("")},
            b \in {Str("B2"), Str("A1"), Str("")},
            c \in {Str("C1"), Str("")}}

InitResolver ==
    /\ rsOp = "none"
    /\ \/ rsStr \in RangeInputs \cup RefInputs /\ rsIdx = 0
       \/ rsStr = <<>> /\ rsIdx \in 0..MaxCol
    /\ rsCells = <<>>
    /\ rsRef = Null
    /\ rsLabel = <<>>

IdleResolver ==
    /\ rsOp = "off"
    /\ rsStr = <<>>
    /\ rsIdx = 0
    /\ rsCells = <<>>
    /\ rsRef = Null
    /\ rsLabel = <<>>

CallParseRange ==
    /\ rsOp = "none"
    /\ rsOp' = "parseRange"
    /\ rsCells' = parseRange(rsStr)
    /\ UNCHANGED <<rsStr, rsIdx, rsRef, rsLabel, evVars, gridVars, wbVars, beVars, ktVars>>

CallParseCellReference ==
    /\ rsOp = "none"
    /\ rsOp' = "parseCellReference"
    /\ rsRef' = parseCellReference(rsStr)
    /\ UNCHANGED <<rsStr, rsIdx, rsCells, rsLabel, evVars, gridVars, wbVars, beVars, ktVars>>

CallGetColumnLabel ==
    /\ rsOp = "none"
    /\ rsOp' = "getColumnLabel"
    /\ rsLabel' = getColumnLabel(rsIdx)
    /\ UNCHANGED <<rsStr, rsIdx, rsCells, rsRef, evVars, gridVars, wbVars, beVars, ktVars>>

NextResolver == CallParseRange \/ CallParseCellReference \/ CallGetColumnLabel

----------------------------------------------------------------------------
(* The evaluator, called twice with the same drawn arguments *)

MaxClock == 2

\* a cell as typed (no formula), and a formula cell with its cached result
Plain(text) == CellData(Str(text), Undefined, Undefined)
Computed(formula, display) == CellData(<<>>, Str(formula), Str(display))

A1 == Str("A1")
A2 == Str("A2")
A3 == Str("A3")
B1 == Str("B1")
D1 == Str("D1")

\* the Map with the given cells, a cell given as Undefined being absent
StoreOf(a1, a2, a3, b1) ==
    LET all == (A1 :> a1) @@ (A2 :> a2) @@ (A3 :> a3) @@ (B1 :> b1)
        present == {id \in DOMAIN all : all[id] # CellData(Undefined, Undefined, Undefined)}
    IN [id \in present |-> all[id]]

Absent == CellData(Undefined, Undefined, Undefined)

EvStores ==
    {StoreOf(a1, a2, a3, b1) :
        a1 \in {Absent, Plain("1"), Plain("3"), Plain("10"), Plain("Bob"), Computed("=SUM(A2:A3)", "3")},
        a2 \in {Absent, Plain("2"), Plain("")},
        a3 \in {Absent, Plain("x"), Plain("3x")},
        b1 \in {Absent, Plain("Manager")}}

EvFormulaTexts ==
    {"=SUM(A1:A3)", "=sum(a1:a3)", "=SUM(A1:B2:C3)", "=SUM(B2:A1)", "=SUM(A1)", "=SUM()",
     "=AVERAGE(A1:A2)", "=AVERAGE(A1:A1)", "=AVERAGE(X)", "=MIN(A1:A3)", "=MAX(A1:A3)",
     "=COUNT(A1:A3)", "=COUNTA(A1:B1)",
     "=ROUND(2.5,0)", "=ROUND(3.14159,2)", "=ROUND(5)", "=ROUND(1,101)", "=ROUND(1,-1)", "=ROUND(A1,1)",
     "=CONCAT(A1,\"x\",B1)", "=LEN(A1)", "=LEN(\"abc\")", "=UPPER(B1)", "=LOWER(B1)",
     "=TODAY()", "=NOW()", "=today()", "=TODAY(1)", "= NOW() ",
     "=IF(A1>5,\"big\",\"small\")", "=IF(A1,1,0)",
     "=IF(A1>3,1,0)", "=IF(A1<3,1,0)", "=IF(A1>=3,1,0)", "=IF(A1<=3,1,0)",
     "=IF(A1==3,1,0)", "=IF(A1=3,1,0)", "=IF(A1!=3,1,0)",
     "=VLOOKUP(\"Bob\",A1:B3,2,FALSE)", "=VLOOKUP(1,A1:B1,2,0)",
     "=VLOOKUP(1,A1:B2,3,0)", "=VLOOKUP(1,A1:B2,0,0)",
     "=A1", "=a2", "=A3", "=B1", "=Z9",
     "=2+2*3", "=(2+2)*3", "=10-2*3", "=2*(3+4)-8/4/2", "=FOO(1)",
     "=MIN(X)", "=MAX(X)", "=AVERAGE(A2:A2)", "=MIN(A2:A2)", "=MAX(A2:A2)", "=1/0", "=5/(2-2)", "=A1+B1", "=FOO", "=FOO(A1:B2)", "=FOO(1", "=",
     "=1++1", "=2**3", "=1//2", "=//", "=08", "=1(2)",
     "hello", "not a formula", " =1+1", "", "Abc ", "12"}

EvFormulas == {f \in {Str(t) : t \in EvFormulaTexts} : ~HasRegExpLiteral(sanitize(toUpperCase(f)))}

InitEval ==
    /\ evFormula \in EvFormulas
    /\ evCellId \in {D1, A1}
    /\ evCells \in EvStores
    /\ evCalls = 0
    /\ evOut = Undefined
    /\ evOut2 = Undefined
    /\ clock = 0

IdleEval ==
    /\ evFormula = <<>>
    /\ evCellId = <<>>
    /\ evCells = <<>>
    /\ evCalls = 0
    /\ evOut = Undefined
    /\ evOut2 = Undefined
    /\ clock = 0

\* the first call
Evaluate ==
    /\ evCalls = 0
    /\ evCalls' = 1
    /\ evOut' = evaluateFormula(evFormula, evCellId, evCells)
    /\ evCells' = storeAfterEvaluate(evFormula, evCellId, evCells)
    /\ UNCHANGED <<evFormula, evCellId, evOut2, clock, rsVars, gridVars, wbVars, beVars, ktVars>>

\* time passes between the two calls
Tick ==
    /\ evCalls = 1
    /\ clock < MaxClock
    /\ clock' = clock + 1
    /\ UNCHANGED <<evFormula, evCellId, evCells, evCalls, evOut, evOut2, rsVars, gridVars, wbVars, beVars, ktVars>>

\* the second call, with the same arguments
EvaluateAgain ==
    /\ evCalls = 1
    /\ evCalls' = 2
    /\ evOut2' = evaluateFormula(evFormula, evCellId, evCells)
    /\ evCells' = storeAfterEvaluate(evFormula, evCellId, evCells)
    /\ UNCHANGED <<evFormula, evCellId, evOut, clock, rsVars, gridVars, wbVars, beVars, ktVars>>

NextEval == Evaluate \/ Tick \/ EvaluateAgain

----------------------------------------------------------------------------
(* The grid: formula-bar edits and the recalculation effect *)

MaxEdits == 2

GridCellIds == {A1, A2}

GridInputs ==
    {Str(t) : t \in {"1", "x", "=A1", "=A2", "=SUM(A1:A1)", "=IF(A1>0,0,1)"}}

\* what a run of edits is compared by: every cell's value and formula, an
\* absent cell counting as an empty one
View(store) ==
    [id \in GridCellIds |->
        IF id \in DOMAIN store THEN [value |-> store[id].value, formula |-> store[id].formula]
        ELSE [value |-> <<>>, formula |-> Undefined]]

NoRun == [phase |-> "none", k |-> 0, n |-> 0, before |-> <<>>, after |-> <<>>]

\* a cut, paste, delete or fill that changed some cell's value or formula
Changed(before, after) ==
    IF View(before) # View(after)
    THEN [phase |-> "op", k |-> 0, n |-> 0, before |-> View(before), after |-> View(after)]
    ELSE NoRun

InitGrid ==
    /\ cells = <<>>
    /\ history = <<>>
    /\ historyIndex = -1
    /\ recalcPending = TRUE
    /\ editsDone = 0
    /\ passParity = 0
    /\ copiedCells = <<>>
    /\ opsDone = 0
    /\ editRun = NoRun

IdleGrid ==
    /\ cells = <<>>
    /\ history = <<>>
    /\ historyIndex = -1
    /\ recalcPending = FALSE
    /\ editsDone = 0
    /\ passParity = 0
    /\ copiedCells = <<>>
    /\ opsDone = 0
    /\ editRun = NoRun

\* handleFormulaBarSubmit, for the selected cell and the formula bar's text
handleFormulaBarSubmit(cellId, formulaBarValue) ==
    LET isFormula == startsWith(formulaBarValue, Str("="))
        formula == IF isFormula /\ formulaBarValue # <<>> THEN formulaBarValue ELSE Undefined
        value == IF isFormula THEN <<>> ELSE formulaBarValue
        historyEntry ==
            [type |-> "edit",
             cellId |-> cellId,
             oldValue |-> IF cellId \in DOMAIN cells THEN cells[cellId].value ELSE <<>>,
             oldFormula |-> IF cellId \in DOMAIN cells THEN cells[cellId].formula ELSE Undefined,
             newValue |-> value,
             newFormula |-> formula]
    IN /\ editsDone < MaxEdits
       /\ cells' = MapSet(cells, cellId, CellData(value, formula, Undefined))
       /\ history' = Take(history, historyIndex + 1) \o <<historyEntry>>
       /\ historyIndex' = historyIndex + 1
       /\ recalcPending' = TRUE
       /\ editsDone' = editsDone + 1
       /\ editRun' = IF editRun.phase = "edits"
                     THEN [editRun EXCEPT !.k = @ + 1, !.after = View(cells')]
                     ELSE [phase |-> "edits", k |-> 1, n |-> 0,
                           before |-> View(cells), after |-> View(cells')]
       /\ UNCHANGED <<passParity, copiedCells, opsDone, rsVars, evVars, wbVars, beVars, ktVars>>

\* a pass that computes only the formulas that have no displayValue yet
recalculatedOnce(store) ==
    [id \in DOMAIN store |->
        IF store[id].formula # Undefined /\ store[id].formula # <<>>
           /\ store[id].displayValue = Undefined
        THEN [store[id] EXCEPT !.displayValue = evaluateFormula(store[id].formula, id, store).value]
        ELSE store[id]]

\* one run of the recalculate-formulas effect: a pass over the snapshot
recalculated(store) ==
    [id \in DOMAIN store |->
        IF store[id].formula # Undefined /\ store[id].formula # <<>>
        THEN [store[id] EXCEPT !.displayValue = evaluateFormula(store[id].formula, id, store).value]
        ELSE store[id]]

RecalcPass ==
    /\ recalcPending
    /\ LET Write(newCells, hasChanges) ==
               /\ cells' = newCells
               /\ recalcPending' = hasChanges
           Pass(newCells) == Write(newCells, newCells # cells)
       IN Pass(recalculated(cells))
    /\ passParity' = 1 - passParity
    /\ UNCHANGED <<history, historyIndex, editsDone, copiedCells, opsDone, editRun, rsVars, evVars, wbVars, beVars, ktVars>>

FormulaBarSubmit == \E cellId \in GridCellIds, text \in GridInputs : handleFormulaBarSubmit(cellId, text)

NextGrid == FormulaBarSubmit \/ RecalcPass

\* sheets as the load effect (lines 140-185) leaves them: values and formulas
\* from the backend, no displayValue yet
LoadedStores ==
    {<<>>,
     MapSet(<<>>, A3, CellData(Str("2"), Undefined, Undefined)),
     MapSet(MapSet(<<>>, A3, CellData(<<>>, Str("=A2"), Undefined)),
            A2, CellData(<<>>, Str("=A1"), Undefined)),
     MapSet(MapSet(MapSet(<<>>, A3, CellData(<<>>, Str("=A2"), Undefined)),
                   A2, CellData(<<>>, Str("=A1"), Undefined)),
            A1, CellData(Str("2"), Undefined, Undefined))}

LoadedGrid ==
    /\ cells \in LoadedStores
    /\ history = <<>>
    /\ historyIndex = -1
    /\ recalcPending = TRUE
    /\ editsDone = 0
    /\ passParity = 0
    /\ copiedCells = <<>>
    /\ opsDone = 0
    /\ editRun = NoRun


----------------------------------------------------------------------------
(* The sheet: edits, undo and redo, the clipboard, delete, drag-fill, import *)

\* the edits, cuts, pastes, deletes, fills and imports of a behaviour of the
\* sheet, taken together; undo and redo are bounded by the history
MaxOps == 3

getCellId(row, col) == getColumnLabel(col) \o NatToStr(row + 1)

\* Map.delete
MapDelete(store, key) == [id \in DOMAIN store \ {key} |-> store[id]]

\* the undo of an edit that restores the old value and leaves the formula
undoneKeepingFormula(store, entry) ==
    MapSet(store, entry.cellId,
           CellData(OrElse(entry.oldValue, <<>>),
                    IF entry.cellId \in DOMAIN store THEN store[entry.cellId].formula ELSE Undefined,
                    Undefined))

\* the cells after the undo of an edit entry, and after its redo
undone(store, entry) ==
    MapSet(store, entry.cellId, CellData(OrElse(entry.oldValue, <<>>), entry.oldFormula, Undefined))

redone(store, entry) ==
    MapSet(store, entry.cellId, CellData(OrElse(entry.newValue, <<>>), entry.newFormula, Undefined))

\* history is indexed from 0 in the source and from 1 here
handleUndo ==
    /\ historyIndex >= 0
    /\ LET entry == history[historyIndex + 1]
       IN /\ entry.type = "edit" /\ entry.cellId # <<>>
          /\ cells' = undone(cells, entry)
    /\ historyIndex' = historyIndex - 1
    /\ recalcPending' = TRUE
    /\ editRun' = IF editRun.phase = "edits" THEN [editRun EXCEPT !.phase = "undos", !.n = 1]
                  ELSE IF editRun.phase = "undos" /\ editRun.n < editRun.k
                       THEN [editRun EXCEPT !.n = @ + 1]
                  ELSE IF editRun.phase = "op" THEN [editRun EXCEPT !.phase = "opUndone"]
                  ELSE NoRun
    /\ UNCHANGED <<history, editsDone, passParity, copiedCells, opsDone, rsVars, evVars, wbVars, beVars, ktVars>>

handleRedo ==
    /\ historyIndex < Len(history) - 1
    /\ LET entry == history[historyIndex + 2]
       IN /\ entry.type = "edit" /\ entry.cellId # <<>>
          /\ cells' = redone(cells, entry)
    /\ historyIndex' = historyIndex + 1
    /\ recalcPending' = TRUE
    /\ editRun' = IF editRun.phase = "undos" /\ editRun.n = editRun.k
                  THEN [editRun EXCEPT !.phase = "redos", !.n = 1]
                  ELSE IF editRun.phase = "redos" /\ editRun.n < editRun.k
                       THEN [editRun EXCEPT !.n = @ + 1]
                  ELSE NoRun
    /\ UNCHANGED <<history, editsDone, passParity, copiedCells, opsDone, rsVars, evVars, wbVars, beVars, ktVars>>

handleCut(cellId) ==
    /\ opsDone + editsDone < MaxOps
    /\ cellId \in DOMAIN cells
    /\ copiedCells' = <<[key |-> cellId, data |-> cells[cellId]]>>
    /\ cells' = MapDelete(cells, cellId)
    /\ recalcPending' = TRUE
    /\ editRun' = Changed(cells, cells')
    /\ opsDone' = opsDone + 1
    /\ UNCHANGED <<history, historyIndex, editsDone, passParity, rsVars, evVars, wbVars, beVars, ktVars>>

\* Array.from(copiedCells.values())[0]: the one cell of the clipboard
handlePaste(targetCellId) ==
    /\ opsDone + editsDone < MaxOps
    /\ copiedCells # <<>>
    /\ LET copiedData == copiedCells[1].data
       IN cells' = MapSet(cells, targetCellId, copiedData)
    /\ recalcPending' = TRUE
    /\ editRun' = Changed(cells, cells')
    /\ opsDone' = opsDone + 1
    /\ UNCHANGED <<history, historyIndex, editsDone, passParity, copiedCells, rsVars, evVars, wbVars, beVars, ktVars>>

handleDelete(cellId) ==
    /\ opsDone + editsDone < MaxOps
    /\ cells' = MapDelete(cells, cellId)
    /\ recalcPending' = TRUE
    /\ editRun' = Changed(cells, cells')
    /\ opsDone' = opsDone + 1
    /\ UNCHANGED <<history, historyIndex, editsDone, passParity, copiedCells, rsVars, evVars, wbVars, beVars, ktVars>>

\* the cells after a fill of the rectangle from the source cell
dragFilled(store, startRow, startCol, endRow, endCol) ==
    LET sourceCell == store[getCellId(startRow, startCol)]
        targets == {getCellId(row, col) :
                        row \in Min({startRow, endRow})..Max({startRow, endRow}),
                        col \in Min({startCol, endCol})..Max({startCol, endCol})}
                   \ {getCellId(startRow, startCol)}
    IN [id \in DOMAIN store \cup targets |-> IF id \in targets THEN sourceCell ELSE store[id]]

handleDragFill(startRow, startCol, endRow, endCol) ==
    /\ opsDone + editsDone < MaxOps
    /\ getCellId(startRow, startCol) \in DOMAIN cells
    /\ cells' = dragFilled(cells, startRow, startCol, endRow, endCol)
    /\ recalcPending' = TRUE
    /\ editRun' = Changed(cells, cells')
    /\ opsDone' = opsDone + 1
    /\ UNCHANGED <<history, historyIndex, editsDone, passParity, copiedCells, rsVars, evVars, wbVars, beVars, ktVars>>

\* the values of one row of a CSV file, from position i on
RECURSIVE csvValues(_, _, _, _)
csvValues(row, i, current, inQuotes) ==
    IF i > Len(row) THEN <<current>>
    ELSE IF row[i] = "\"" /\ inQuotes /\ i + 1 <= Len(row) /\ row[i + 1] = "\""
         THEN csvValues(row, i + 2, current \o <<"\"">>, inQuotes)
    ELSE IF row[i] = "\"" THEN csvValues(row, i + 1, current, ~inQuotes)
    ELSE IF row[i] = "," /\ ~inQuotes THEN <<current>> \o csvValues(row, i + 1, <<>>, inQuotes)
    ELSE csvValues(row, i + 1, current \o <<row[i]>>, inQuotes)

\* the cells of a CSV text: a blank row is skipped and keeps its index, an
\* empty value sets no cell
csvCells(text) ==
    LET Cells(rows) ==
            LET valuesOf(rowIndex) == IF trim(rows[rowIndex + 1]) = <<>> THEN <<>>
                                      ELSE csvValues(rows[rowIndex + 1], 1, <<>>, FALSE)
                filled == UNION {{<<rowIndex, colIndex>> :
                                      colIndex \in {c \in 0..(Len(valuesOf(rowIndex)) - 1) :
                                                        trim(valuesOf(rowIndex)[c + 1]) # <<>>}} :
                                 rowIndex \in 0..(Len(rows) - 1)}
            IN [id \in {getCellId(rc[1], rc[2]) : rc \in filled} |->
                    LET rc == CHOOSE x \in filled : getCellId(x[1], x[2]) = id
                    IN CellData(trim(valuesOf(rc[1])[rc[2] + 1]), Undefined, Undefined)]
    IN Cells(split(text, "\n"))

\* the cells of a JSON file, whose parsed object comes with the file
jsonCells(data) ==
    [id \in DOMAIN data |->
        CellData(OrElse(data[id].value, <<>>), data[id].formula, data[id].displayValue)]

importFromFile(file) ==
    IF endsWith(file.name, Str(".csv")) THEN csvCells(file.text)
    ELSE IF endsWith(file.name, Str(".json")) THEN jsonCells(file.data)
    ELSE <<>>

handleImport(file) ==
    /\ opsDone + editsDone < MaxOps
    /\ cells' = importFromFile(file)
    /\ recalcPending' = TRUE
    /\ editRun' = NoRun
    /\ opsDone' = opsDone + 1
    /\ UNCHANGED <<history, historyIndex, editsDone, passParity, copiedCells, rsVars, evVars, wbVars, beVars, ktVars>>

SheetInputs == {Str(t) : t \in {"5", "=A2"}}

DragRows == 0..1
DragCols == {0}

ImportFiles ==
    {[name |-> Str("sheet.csv"), text |-> Str("=1+1\n \"a,b\" "), data |-> <<>>],
     [name |-> Str("sheet.json"), text |-> <<>>,
      data |-> (A1 :> [value |-> Str("4"), formula |-> Undefined, displayValue |-> Undefined])
               @@ (A2 :> [value |-> <<>>, formula |-> Str("=A1"), displayValue |-> Str("4")])],
     [name |-> Str("notes.txt"), text |-> Str("7"), data |-> <<>>]}

SheetSubmit ==
    /\ opsDone + editsDone < MaxOps
    /\ \E cellId \in GridCellIds, text \in SheetInputs : handleFormulaBarSubmit(cellId, text)
Cut == \E cellId \in GridCellIds : handleCut(cellId)
Paste == \E cellId \in GridCellIds : handlePaste(cellId)
Delete == \E cellId \in GridCellIds : handleDelete(cellId)
DragFill ==
    \E startRow \in DragRows, startCol \in DragCols, endCol \in DragCols :
        \E endRow \in DragRows \ {startRow} :
            handleDragFill(startRow, startCol, endRow, endCol)
Import == \E file \in ImportFiles : handleImport(file)

NextSheet ==
    \/ SheetSubmit
    \/ handleUndo
    \/ handleRedo
    \/ Cut
    \/ Paste
    \/ Delete
    \/ DragFill
    \/ Import
    \/ RecalcPass

----------------------------------------------------------------------------
(* The workbook: the state of every sheet, written through updateSheetState *)

SheetNames == {"Sheet1", "Sheet2"}

MaxWbOps == 2

EmptySheetState == [cells |-> <<>>, images |-> <<>>, history |-> <<>>, historyIndex |-> -1]

\* sheetStates.get(activeSheet) || { cells: new Map(), images: [], history: [], historyIndex: -1 }
currentSheetState(states, sheet) == IF sheet \in DOMAIN states THEN states[sheet] ELSE EmptySheetState

\* { ...a, ...b }
Spread(a, b) == [k \in DOMAIN a \cup DOMAIN b |-> IF k \in DOMAIN b THEN b[k] ELSE a[k]]

\* the updates spread over the state of every sheet
updateSheetStateOfEverySheet(states, sheet, updates) ==
    [s \in DOMAIN states \cup {sheet} |-> Spread(currentSheetState(states, s), updates)]

\* updateSheetState, for the activeSheet its closure holds
updateSheetState(states, sheet, updates) ==
    [s \in DOMAIN states \cup {sheet} |->
        IF s = sheet THEN Spread(currentSheetState(states, sheet), updates) ELSE states[s]]

\* a cell with its format; an absent format is undefined
NoFormat == [undefined |-> TRUE]
FormattedCell(value, formula, displayValue, format) ==
    [value |-> value, formula |-> formula, displayValue |-> displayValue, format |-> format]

\* cellData?.format, and { ...format }
formatOf(store, cellId) == IF cellId \in DOMAIN store THEN store[cellId].format ELSE NoFormat
spreadFormat(format) == IF format = NoFormat THEN <<>> ELSE format

\* newCells.get(cellId) || { value: '', format }
existingOr(store, cellId, format) ==
    IF cellId \in DOMAIN store THEN store[cellId]
    ELSE FormattedCell(<<>>, Undefined, Undefined, format)

\* format?.fontColor, format?.fillColor
colorOf(format, key) == IF format # NoFormat /\ key \in DOMAIN format THEN format[key] ELSE Undefined

Range(seq) == {seq[i] : i \in 1..Len(seq)}

\* the cells with newCells.set(cellId, { ...existingCell, format }) for every id
withFormats(store, cellIds, emptyFormat, NewFormat(_)) ==
    [id \in DOMAIN store \cup Range(cellIds) |->
        IF id \in Range(cellIds)
        THEN [existingOr(store, id, emptyFormat) EXCEPT !.format = NewFormat(@)]
        ELSE store[id]]

\* the entry appended to the whole history
recordedWithoutTruncating(st, entry) ==
    [history |-> Append(st.history, entry), historyIndex |-> st.historyIndex + 1]

\* history with the entry after the entries up to historyIndex, and the index on it
recorded(st, entry) ==
    [history |-> Take(st.history, st.historyIndex + 1) \o <<entry>>,
     historyIndex |-> st.historyIndex + 1]

\* the updates of handleFormulaBarSubmit
submitUpdates(st, cellId, formulaBarValue) ==
    LET isFormula == startsWith(formulaBarValue, Str("="))
        formula == IF isFormula /\ formulaBarValue # <<>> THEN formulaBarValue ELSE Undefined
        value == IF isFormula THEN <<>> ELSE formulaBarValue
        historyEntry ==
            [type |-> "edit",
             cellId |-> cellId,
             oldValue |-> IF cellId \in DOMAIN st.cells THEN st.cells[cellId].value ELSE <<>>,
             oldFormula |-> IF cellId \in DOMAIN st.cells THEN st.cells[cellId].formula ELSE Undefined,
             newValue |-> value,
             newFormula |-> formula]
    IN Spread([cells |-> MapSet(st.cells, cellId,
                                FormattedCell(value, formula, Undefined, formatOf(st.cells, cellId)))],
              recorded(st, historyEntry))

\* the updates of applyFormatToSelection
formatUpdates(st, selectedCellIds, formatObj) ==
    LET oldFormats == [id \in Range(selectedCellIds) |-> formatOf(st.cells, id)]
        merged(format) == Spread(spreadFormat(format), formatObj)
    IN Spread([cells |-> withFormats(st.cells, selectedCellIds, <<>>, merged)],
              recorded(st, [type |-> "format", cellIds |-> selectedCellIds,
                            oldFormats |-> oldFormats, newFormat |-> formatObj]))

\* the updates of handleApplyFontColor (key fontColor) and handleApplyFillColor (key fillColor)
colorUpdates(st, selectedCellIds, key, color) ==
    LET oldColors == [id \in Range(selectedCellIds) |-> colorOf(formatOf(st.cells, id), key)]
        merged(format) == Spread(spreadFormat(format), [k \in {key} |-> color])
    IN Spread([cells |-> withFormats(st.cells, selectedCellIds, <<>>, merged)],
              recorded(st, [type |-> key, cellIds |-> selectedCellIds,
                            oldColors |-> oldColors, color |-> color]))

\* the updates of the onload callback of handleInsertImage
imageAddUpdates(st, newImage) ==
    Spread([images |-> Append(st.images, newImage)],
           recorded(st, [type |-> "image-add", image |-> newImage]))

hasImage(images, id) == \E i \in 1..Len(images) : images[i].id = id
findImage(images, id) == images[CHOOSE i \in 1..Len(images) : images[i].id = id]
replaceImage(images, image) == [i \in 1..Len(images) |-> IF images[i].id = image.id THEN image ELSE images[i]]
removeImage(images, id) == SelectSeq(images, LAMBDA img : img.id # id)

\* the updates of handleImageUpdate and handleImageDelete, for an image of the sheet
imageUpdateUpdates(st, updatedImage) ==
    Spread([images |-> replaceImage(st.images, updatedImage)],
           recorded(st, [type |-> "image-update", image |-> updatedImage,
                         oldImage |-> findImage(st.images, updatedImage.id)]))

imageDeleteUpdates(st, imageId) ==
    Spread([images |-> removeImage(st.images, imageId)],
           recorded(st, [type |-> "image-delete", image |-> findImage(st.images, imageId)]))

\* the updates of handleUndo for the entry at historyIndex; none when no branch takes it
undoUpdates(st) ==
    LET entry == st.history[st.historyIndex + 1]
        back == [historyIndex |-> st.historyIndex - 1]
        oldFormat(id) == entry.oldFormats[id]
    IN CASE entry.type = "edit" /\ entry.cellId # <<>> ->
              Spread([cells |-> MapSet(st.cells, entry.cellId,
                                       FormattedCell(OrElse(entry.oldValue, <<>>), entry.oldFormula,
                                                     Undefined, formatOf(st.cells, entry.cellId)))],
                     back)
         [] entry.type = "format" ->
              Spread([cells |-> [id \in DOMAIN st.cells \cup Range(entry.cellIds) |->
                                    IF id \in Range(entry.cellIds)
                                    THEN [existingOr(st.cells, id, NoFormat) EXCEPT !.format = oldFormat(id)]
                                    ELSE st.cells[id]]],
                     back)
         [] entry.type \in {"fontColor", "fillColor"} ->
              Spread([cells |-> [id \in DOMAIN st.cells \cup Range(entry.cellIds) |->
                                    IF id \in Range(entry.cellIds)
                                    THEN [existingOr(st.cells, id, NoFormat) EXCEPT
                                              !.format = Spread(spreadFormat(@),
                                                                [k \in {entry.type} |-> entry.oldColors[id]])]
                                    ELSE st.cells[id]]],
                     back)
         [] entry.type = "image-add" -> Spread([images |-> removeImage(st.images, entry.image.id)], back)
         [] entry.type = "image-update" -> Spread([images |-> replaceImage(st.images, entry.oldImage)], back)
         [] entry.type = "image-delete" -> Spread([images |-> Append(st.images, entry.image)], back)
         [] OTHER -> <<>>

\* the updates of handleRedo for the entry after historyIndex
redoUpdates(st) ==
    LET entry == st.history[st.historyIndex + 2]
        forth == [historyIndex |-> st.historyIndex + 1]
        mergedFormat(format) == Spread(spreadFormat(format), entry.newFormat)
        mergedColor(format) == Spread(spreadFormat(format), [k \in {entry.type} |-> entry.color])
    IN CASE entry.type = "edit" /\ entry.cellId # <<>> ->
              Spread([cells |-> MapSet(st.cells, entry.cellId,
                                       FormattedCell(OrElse(entry.newValue, <<>>), entry.newFormula,
                                                     Undefined, formatOf(st.cells, entry.cellId)))],
                     forth)
         [] entry.type = "format" ->
              Spread([cells |-> withFormats(st.cells, entry.cellIds, NoFormat, mergedFormat)], forth)
         [] entry.type \in {"fontColor", "fillColor"} /\ entry.color # <<>> ->
              Spread([cells |-> withFormats(st.cells, entry.cellIds, NoFormat, mergedColor)], forth)
         [] entry.type = "image-add" -> Spread([images |-> Append(st.images, entry.image)], forth)
         [] entry.type = "image-update" -> Spread([images |-> replaceImage(st.images, entry.image)], forth)
         [] entry.type = "image-delete" -> Spread([images |-> removeImage(st.images, entry.image.id)], forth)
         [] OTHER -> <<>>

\* the cells importFromFile gives, which carry no format
importedCells(file) ==
    LET Formatted(imported) ==
            [id \in DOMAIN imported |->
                FormattedCell(imported[id].value, imported[id].formula, imported[id].displayValue, NoFormat)]
    IN Formatted(importFromFile(file))

\* the cells importFromXLSX gives for the first worksheet the library has read
importFromXLSX(worksheet) ==
    [id \in DOMAIN worksheet |->
        FormattedCell(worksheet[id].v, Undefined, Undefined,
                      IF worksheet[id].bold THEN [bold |-> TRUE] ELSE NoFormat)]

\* what the backend holds of a sheet when the page loads it
backendSheet(sheet) ==
    IF sheet = "Sheet2"
    THEN [cells |-> MapSet(<<>>, A1, FormattedCell(Str("7"), Undefined, Undefined, NoFormat)),
          images |-> <<>>, history |-> <<>>, historyIndex |-> -1]
    ELSE EmptySheetState

WbCellIds == {A1}
WbInputs == {Str("5")}
WbSelections == {<<A1>>}
WbFormats == {[bold |-> TRUE]}
WbColors == {Str("#ff0000")}
WbCsvFiles == {[name |-> Str("sheet.csv"), text |-> Str("3"), data |-> <<>>]}
WbWorksheets == {MapSet(<<>>, A1, [v |-> Str("8"), bold |-> TRUE])}

\* the kinds of step that record a history entry
RecordingKinds ==
    {"edit", "format", "fontColor", "fillColor", "image-add", "image-update", "image-delete"}

gridRest == <<cells, history, historyIndex, recalcPending, editsDone, passParity, opsDone, editRun>>

\* the state a handler reads: that of the active sheet in the current render
shown == currentSheetState(sheetStates, activeSheet)

InitWorkbook ==
    /\ sheetStates = <<>>
    /\ activeSheet = "Sheet1"
    /\ wbPending = <<>>
    /\ lastOp = [sheet |-> "Sheet1", kind |-> "none"]
    /\ wbOps = 0

\* one call of updateSheetState from a closure of the given sheet
Updated(sheet, kind, updates) ==
    /\ sheetStates' = updateSheetState(sheetStates, sheet, updates)
    /\ lastOp' = [sheet |-> sheet, kind |-> kind]

\* a user operation on the active sheet, completed in the handler
Operated(kind, updates) ==
    /\ wbOps < MaxWbOps
    /\ Updated(activeSheet, kind, updates)
    /\ wbOps' = wbOps + 1
    /\ UNCHANGED <<activeSheet, wbPending>>

\* the effect of lines 140-185: the active sheet has no state yet and the backend's arrives
LoadSheet ==
    /\ activeSheet \notin DOMAIN sheetStates
    /\ sheetStates' = MapSet(sheetStates, activeSheet, backendSheet(activeSheet))
    /\ lastOp' = [sheet |-> activeSheet, kind |-> "load"]
    /\ UNCHANGED <<activeSheet, wbPending, wbOps, rsVars, evVars, gridVars, beVars, ktVars>>

handleSheetChange(sheetName) ==
    /\ sheetName # activeSheet
    /\ activeSheet' = sheetName
    /\ lastOp' = [sheet |-> sheetName, kind |-> "switch"]
    /\ UNCHANGED <<sheetStates, wbPending, wbOps, rsVars, evVars, gridVars, beVars, ktVars>>

SheetChange == \E sheetName \in SheetNames : handleSheetChange(sheetName)

SubmitOnSheet ==
    /\ \E cellId \in WbCellIds, text \in WbInputs :
          Operated("edit", submitUpdates(shown, cellId, text))
    /\ UNCHANGED <<rsVars, evVars, gridVars, beVars, ktVars>>

applyFormatToSelection ==
    /\ \E ids \in WbSelections, formatObj \in WbFormats :
          Operated("format", formatUpdates(shown, ids, formatObj))
    /\ UNCHANGED <<rsVars, evVars, gridVars, beVars, ktVars>>

handleApplyFontColor ==
    /\ \E ids \in WbSelections, color \in WbColors :
          Operated("fontColor", colorUpdates(shown, ids, "fontColor", color))
    /\ UNCHANGED <<rsVars, evVars, gridVars, beVars, ktVars>>

handleApplyFillColor ==
    /\ \E ids \in WbSelections, color \in WbColors :
          Operated("fillColor", colorUpdates(shown, ids, "fillColor", color))
    /\ UNCHANGED <<rsVars, evVars, gridVars, beVars, ktVars>>

\* handleInsertImage up to reader.readAsDataURL: onload keeps this render's closure
handleInsertImage ==
    /\ wbOps < MaxWbOps
    /\ wbPending = <<>>
    /\ wbPending' = [kind |-> "image-add", sheet |-> activeSheet, st |-> shown, id |-> wbOps]
    /\ lastOp' = [sheet |-> activeSheet, kind |-> "begin"]
    /\ wbOps' = wbOps + 1
    /\ UNCHANGED <<sheetStates, activeSheet, rsVars, evVars, gridVars, beVars, ktVars>>

\* reader.onload
insertImageOnload ==
    /\ wbPending # <<>>
    /\ wbPending.kind = "image-add"
    /\ Updated(wbPending.sheet, "image-add",
               imageAddUpdates(wbPending.st, [id |-> wbPending.id, x |-> 0, anchorCell |-> A1]))
    /\ wbPending' = <<>>
    /\ UNCHANGED <<activeSheet, wbOps, rsVars, evVars, gridVars, beVars, ktVars>>

handleImageUpdate ==
    /\ \E i \in 1..Len(shown.images) :
          Operated("image-update", imageUpdateUpdates(shown, [shown.images[i] EXCEPT !.x = 10]))
    /\ UNCHANGED <<rsVars, evVars, gridVars, beVars, ktVars>>

handleImageDelete ==
    /\ \E i \in 1..Len(shown.images) :
          Operated("image-delete", imageDeleteUpdates(shown, shown.images[i].id))
    /\ UNCHANGED <<rsVars, evVars, gridVars, beVars, ktVars>>

UndoOnSheet ==
    /\ shown.historyIndex >= 0
    /\ undoUpdates(shown) # <<>>
    /\ Updated(activeSheet, "undo", undoUpdates(shown))
    /\ UNCHANGED <<activeSheet, wbPending, wbOps, rsVars, evVars, gridVars, beVars, ktVars>>

RedoOnSheet ==
    /\ shown.historyIndex < Len(shown.history) - 1
    /\ redoUpdates(shown) # <<>>
    /\ Updated(activeSheet, "redo", redoUpdates(shown))
    /\ UNCHANGED <<activeSheet, wbPending, wbOps, rsVars, evVars, gridVars, beVars, ktVars>>

CutOnSheet ==
    /\ \E cellId \in WbCellIds :
          /\ cellId \in DOMAIN shown.cells
          /\ copiedCells' = <<[key |-> cellId, data |-> shown.cells[cellId]]>>
          /\ Operated("cut", [cells |-> MapDelete(shown.cells, cellId)])
    /\ UNCHANGED <<rsVars, evVars, gridRest, beVars, ktVars>>

PasteOnSheet ==
    /\ copiedCells # <<>>
    /\ \E targetCellId \in WbCellIds :
          Operated("paste", [cells |-> MapSet(shown.cells, targetCellId, copiedCells[1].data)])
    /\ UNCHANGED <<rsVars, evVars, gridVars, beVars, ktVars>>

DeleteOnSheet ==
    /\ \E cellId \in WbCellIds : Operated("delete", [cells |-> MapDelete(shown.cells, cellId)])
    /\ UNCHANGED <<rsVars, evVars, gridVars, beVars, ktVars>>

\* handleImport and handleImportExcel up to their await
ImportStarted(kind, file) ==
    /\ wbOps < MaxWbOps
    /\ wbPending = <<>>
    /\ wbPending' = [kind |-> kind, sheet |-> activeSheet, file |-> file]
    /\ lastOp' = [sheet |-> activeSheet, kind |-> "begin"]
    /\ wbOps' = wbOps + 1
    /\ UNCHANGED <<sheetStates, activeSheet>>

ImportOnSheet ==
    /\ \E file \in WbCsvFiles : ImportStarted("import", file)
    /\ UNCHANGED <<rsVars, evVars, gridVars, beVars, ktVars>>

ImportExcelOnSheet ==
    /\ \E worksheet \in WbWorksheets : ImportStarted("excel", worksheet)
    /\ UNCHANGED <<rsVars, evVars, gridVars, beVars, ktVars>>

\* handleImport after importFromFile has resolved
importResolved ==
    /\ wbPending # <<>>
    /\ wbPending.kind = "import"
    /\ Updated(wbPending.sheet, "import", [cells |-> importedCells(wbPending.file)])
    /\ wbPending' = <<>>
    /\ UNCHANGED <<activeSheet, wbOps, rsVars, evVars, gridVars, beVars, ktVars>>

\* handleImportExcel after importFromXLSX has resolved
importExcelResolved ==
    /\ wbPending # <<>>
    /\ wbPending.kind = "excel"
    /\ Updated(wbPending.sheet, "excel",
               [cells |-> importFromXLSX(wbPending.file), history |-> <<>>, historyIndex |-> -1])
    /\ wbPending' = <<>>
    /\ UNCHANGED <<activeSheet, wbOps, rsVars, evVars, gridVars, beVars, ktVars>>

NextWorkbook ==
    \/ LoadSheet
    \/ SheetChange
    \/ SubmitOnSheet
    \/ applyFormatToSelection
    \/ handleApplyFontColor
    \/ handleApplyFillColor
    \/ handleInsertImage
    \/ insertImageOnload
    \/ handleImageUpdate
    \/ handleImageDelete
    \/ UndoOnSheet
    \/ RedoOnSheet
    \/ CutOnSheet
    \/ PasteOnSheet
    \/ DeleteOnSheet
    \/ ImportOnSheet
    \/ ImportExcelOnSheet
    \/ importResolved
    \/ importExcelResolved

----------------------------------------------------------------------------
(* The backend actor: spreadsheets, their sheets and permissions.  Every      *)
(* caller is a registered user; a trap rolls the call back.                   *)

MaxBeCalls == 4

Principals == {"alice", "bob"}
BeSheetNames == {"Sheet1", "Sheet2"}
BeCellIds == {"A1"}
BeValues == {"5"}
BeFormats == {[bold |-> TRUE, fontColor |-> Null, fillColor |-> Null]}
BeColors == {"#ff0000"}
BeImages == {[id |-> "img", x |-> 0]}
SharedPermissions == {"editor", "viewer"}
NoSuchId == "none"

Trap == [trap |-> TRUE]
Done(state) == [trap |-> FALSE, state |-> state]

\* textMap.put, textMap.delete
Put(map, key, val) == [k \in DOMAIN map \cup {key} |-> IF k = key THEN val ELSE map[k]]
Remove(map, key) == [k \in DOMAIN map \ {key} |-> map[k]]

hasSpreadsheetPermission(spreadsheet, caller, requiredPermission) ==
    IF spreadsheet.owner = caller THEN TRUE
    ELSE IF caller \notin DOMAIN spreadsheet.permissions THEN FALSE
    ELSE CASE requiredPermission = "owner" -> FALSE
           [] requiredPermission = "editor" -> spreadsheet.permissions[caller] \in {"owner", "editor"}
           [] requiredPermission = "viewer" -> TRUE

\* the lookups every update makes: the spreadsheet, the permission, then the change
withSpreadsheet(state, caller, spreadsheetId, requiredPermission, Change(_)) ==
    IF spreadsheetId \notin DOMAIN state THEN Trap
    ELSE IF ~hasSpreadsheetPermission(state[spreadsheetId], caller, requiredPermission) THEN Trap
    ELSE Change(state[spreadsheetId])

\* ... then the sheet, and the change of the sheet
withSheet(state, caller, spreadsheetId, sheetName, NewSheet(_)) ==
    LET Change(spreadsheet) ==
            IF sheetName \notin DOMAIN spreadsheet.sheets THEN Trap
            ELSE Done(Put(state, spreadsheetId,
                          [spreadsheet EXCEPT !.sheets =
                              Put(@, sheetName, NewSheet(spreadsheet.sheets[sheetName]))]))
    IN withSpreadsheet(state, caller, spreadsheetId, "editor", Change)

createSpreadsheet(state, caller, id) ==
    Done(Put(state, id,
             [id |-> id,
              owner |-> caller,
              sheets |-> Put(<<>>, "Sheet1", [name |-> "Sheet1", cells |-> <<>>, images |-> <<>>]),
              permissions |-> <<>>,
              activeSheet |-> "Sheet1"]))

saveCell(state, caller, spreadsheetId, sheetName, cellId, value, formula) ==
    LET cell == [value |-> value, formula |-> formula, format |-> Null]
        NewSheet(sheet) == [sheet EXCEPT !.cells = Put(@, cellId, cell)]
    IN withSheet(state, caller, spreadsheetId, sheetName, NewSheet)

\* the first of Sheet2, Sheet3, ... that is not a sheet yet
RECURSIVE freeSheetName(_, _)
freeSheetName(sheets, sheetNumber) ==
    IF ("Sheet" \o ToString(sheetNumber)) \in DOMAIN sheets
    THEN freeSheetName(sheets, sheetNumber + 1)
    ELSE "Sheet" \o ToString(sheetNumber)

addSheet(state, caller, spreadsheetId) ==
    LET Change(spreadsheet) ==
            LET sheetName == freeSheetName(spreadsheet.sheets, 2)
            IN Done(Put(state, spreadsheetId,
                        [spreadsheet EXCEPT !.sheets =
                            Put(@, sheetName, [name |-> sheetName, cells |-> <<>>, images |-> <<>>])]))
    IN withSpreadsheet(state, caller, spreadsheetId, "editor", Change)

switchSheet(state, caller, spreadsheetId, sheetName) ==
    LET Change(spreadsheet) ==
            IF sheetName \notin DOMAIN spreadsheet.sheets THEN Trap
            ELSE Done(Put(state, spreadsheetId, [spreadsheet EXCEPT !.activeSheet = sheetName]))
    IN withSpreadsheet(state, caller, spreadsheetId, "viewer", Change)

shareSpreadsheet(state, caller, spreadsheetId, user, permission) ==
    LET Change(spreadsheet) ==
            Done(Put(state, spreadsheetId, [spreadsheet EXCEPT !.permissions = Put(@, user, permission)]))
    IN withSpreadsheet(state, caller, spreadsheetId, "owner", Change)

revokeSpreadsheetAccess(state, caller, spreadsheetId, user) ==
    LET Change(spreadsheet) ==
            Done(Put(state, spreadsheetId, [spreadsheet EXCEPT !.permissions = Remove(@, user)]))
    IN withSpreadsheet(state, caller, spreadsheetId, "owner", Change)

deleteSpreadsheet(state, caller, spreadsheetId) ==
    LET Change(spreadsheet) == Done(Remove(state, spreadsheetId))
    IN withSpreadsheet(state, caller, spreadsheetId, "owner", Change)

deleteSheet(state, caller, spreadsheetId, sheetName) ==
    LET Change(spreadsheet) ==
            Done(Put(state, spreadsheetId, [spreadsheet EXCEPT !.sheets = Remove(@, sheetName)]))
    IN withSpreadsheet(state, caller, spreadsheetId, "editor", Change)

\* the cells with the format of every stored cell among cellIds replaced
formatted(sheetCells, cellIds, NewFormat(_)) ==
    [id \in DOMAIN sheetCells |->
        IF id \in cellIds THEN [sheetCells[id] EXCEPT !.format = NewFormat(@)] ELSE sheetCells[id]]

EmptyFormat == [bold |-> Null, fontColor |-> Null, fillColor |-> Null]

applyFormat(state, caller, spreadsheetId, sheetName, cellIds, formatObj) ==
    LET NewFormat(format) == formatObj
        NewSheet(sheet) == [sheet EXCEPT !.cells = formatted(@, cellIds, NewFormat)]
    IN withSheet(state, caller, spreadsheetId, sheetName, NewSheet)

applyFontColor(state, caller, spreadsheetId, sheetName, cellIds, color) ==
    LET NewFormat(format) == [(IF format = Null THEN EmptyFormat ELSE format) EXCEPT !.fontColor = color]
        NewSheet(sheet) == [sheet EXCEPT !.cells = formatted(@, cellIds, NewFormat)]
    IN withSheet(state, caller, spreadsheetId, sheetName, NewSheet)

applyFillColor(state, caller, spreadsheetId, sheetName, cellIds, color) ==
    LET NewFormat(format) == [(IF format = Null THEN EmptyFormat ELSE format) EXCEPT !.fillColor = color]
        NewSheet(sheet) == [sheet EXCEPT !.cells = formatted(@, cellIds, NewFormat)]
    IN withSheet(state, caller, spreadsheetId, sheetName, NewSheet)

\* addImage and updateImage both put the image under its id
putImage(state, caller, spreadsheetId, sheetName, image) ==
    LET NewSheet(sheet) == [sheet EXCEPT !.images = Put(@, image.id, image)]
    IN withSheet(state, caller, spreadsheetId, sheetName, NewSheet)

deleteImage(state, caller, spreadsheetId, sheetName, imageId) ==
    LET NewSheet(sheet) == [sheet EXCEPT !.images = Remove(@, imageId)]
    IN withSheet(state, caller, spreadsheetId, sheetName, NewSheet)

InitBackend ==
    /\ spreadsheets = <<>>
    /\ beCalls = 0
    /\ beLast = [method |-> "none", caller |-> "none", id |-> NoSuchId, sheet |-> "none",
                 cell |-> "none", before |-> <<>>, trapped |-> FALSE]

\* one update call: its result committed, or rolled back when it trapped
Called(method, caller, spreadsheetId, sheetName, cellId, result) ==
    /\ beCalls < MaxBeCalls
    /\ beCalls' = beCalls + 1
    /\ spreadsheets' = IF result = Trap THEN spreadsheets ELSE result.state
    /\ beLast' = [method |-> method, caller |-> caller, id |-> spreadsheetId, sheet |-> sheetName,
                  cell |-> cellId, before |-> spreadsheets, trapped |-> (result = Trap)]
    /\ UNCHANGED <<rsVars, evVars, gridVars, wbVars, ktVars>>

BeIds == DOMAIN spreadsheets \cup {NoSuchId}

\* Text.concat(name, Int.toText(Time.now())), the time read as the number of calls made
newId == "doc" \o ToString(beCalls + 1)

CreateSpreadsheet ==
    /\ beCalls < MaxBeCalls
    /\ \E caller \in Principals :
          Called("createSpreadsheet", caller, newId, "none", "none",
                 createSpreadsheet(spreadsheets, caller, newId))

SaveCell ==
    \E caller \in Principals, id \in BeIds, sheetName \in BeSheetNames, cellId \in BeCellIds,
       value \in BeValues :
        Called("saveCell", caller, id, sheetName, cellId,
               saveCell(spreadsheets, caller, id, sheetName, cellId, value, Null))

AddSheet ==
    \E caller \in Principals, id \in BeIds :
        Called("addSheet", caller, id, "none", "none", addSheet(spreadsheets, caller, id))

SwitchSheet ==
    \E caller \in Principals, id \in BeIds, sheetName \in BeSheetNames :
        Called("switchSheet", caller, id, sheetName, "none",
               switchSheet(spreadsheets, caller, id, sheetName))

ShareSpreadsheet ==
    \E caller \in Principals, id \in BeIds, user \in Principals, permission \in SharedPermissions :
        Called("shareSpreadsheet", caller, id, "none", "none",
               shareSpreadsheet(spreadsheets, caller, id, user, permission))

RevokeSpreadsheetAccess ==
    \E caller \in Principals, id \in BeIds, user \in Principals :
        Called("revokeSpreadsheetAccess", caller, id, "none", "none",
               revokeSpreadsheetAccess(spreadsheets, caller, id, user))

DeleteSpreadsheet ==
    \E caller \in Principals, id \in BeIds :
        Called("deleteSpreadsheet", caller, id, "none", "none",
               deleteSpreadsheet(spreadsheets, caller, id))

DeleteSheet ==
    \E caller \in Principals, id \in BeIds, sheetName \in BeSheetNames :
        Called("deleteSheet", caller, id, sheetName, "none",
               deleteSheet(spreadsheets, caller, id, sheetName))

ApplyFormat ==
    \E caller \in Principals, id \in BeIds, sheetName \in BeSheetNames, formatObj \in BeFormats :
        Called("applyFormatToSelection", caller, id, sheetName, "none",
               applyFormat(spreadsheets, caller, id, sheetName, BeCellIds, formatObj))

ApplyFontColor ==
    \E caller \in Principals, id \in BeIds, sheetName \in BeSheetNames, color \in BeColors :
        Called("applyFontColor", caller, id, sheetName, "none",
               applyFontColor(spreadsheets, caller, id, sheetName, BeCellIds, color))

ApplyFillColor ==
    \E caller \in Principals, id \in BeIds, sheetName \in BeSheetNames, color \in BeColors :
        Called("applyFillColor", caller, id, sheetName, "none",
               applyFillColor(spreadsheets, caller, id, sheetName, BeCellIds, color))

PutImage ==
    \E caller \in Principals, id \in BeIds, sheetName \in BeSheetNames, image \in BeImages :
        Called("addImage", caller, id, sheetName, "none",
               putImage(spreadsheets, caller, id, sheetName, image))

DeleteImage ==
    \E caller \in Principals, id \in BeIds, sheetName \in BeSheetNames, image \in BeImages :
        Called("deleteImage", caller, id, sheetName, "none",
               deleteImage(spreadsheets, caller, id, sheetName, image.id))

NextBackend ==
    \/ CreateSpreadsheet
    \/ SaveCell
    \/ AddSheet
    \/ SwitchSheet
    \/ ShareSpreadsheet
    \/ RevokeSpreadsheetAccess
    \/ DeleteSpreadsheet
    \/ DeleteSheet
    \/ ApplyFormat
    \/ ApplyFontColor
    \/ ApplyFillColor
    \/ PutImage
    \/ DeleteImage

----------------------------------------------------------------------------
(* KeyTips: the key sequence state machine of useKeyTips and its timers *)

TimeoutMs == 2500
ResetMs == 300
TickMs == 100
MaxKtTime == 3000
MaxSequences == 2

\* the registered mappings: the Home tab and its commands
KeyTipMappings ==
    {[key |-> "H", tab |-> "none"],
     [key |-> "B", tab |-> "H"], [key |-> "I", tab |-> "H"],
     [key |-> "O", tab |-> "H"], [key |-> "G", tab |-> "H"]}

\* the letter keys pressed
KtKeys == {"h", "b", "x"}

NoTab == "null"
NoReturn == [cause |-> "none", from |-> "idle", armedIn |-> 0, seq |-> 0, elapsed |-> 0]

InitKeyTips ==
    /\ ktState = "idle"
    /\ ktActiveTab = NoTab
    /\ ktSequence = <<>>
    /\ ktTimeoutRef = <<>>
    /\ ktResets = {}
    /\ ktNow = 0
    /\ ktSeqNo = 0
    /\ ktAccepted = 0
    /\ ktLast = NoReturn

ktRest == <<rsVars, evVars, gridVars, wbVars, beVars>>

\* resetState, brought about by the given cause; a timer names the sequence it was armed in
resetState(cause, armedIn) ==
    /\ ktState' = "idle"
    /\ ktSequence' = <<>>
    /\ ktActiveTab' = NoTab
    /\ ktTimeoutRef' = <<>>
    /\ ktLast' = [cause |-> cause, from |-> ktState, armedIn |-> armedIn, seq |-> ktSeqNo,
                  elapsed |-> ktNow - ktAccepted]

\* startTimeout: the timer of timeoutRef replaced by one of 2.5 s
startTimeout(seq) == ktTimeoutRef' = <<[at |-> ktNow + TimeoutMs, seq |-> seq]>>

\* keydown of the activation key while idle
Activate ==
    /\ ktState = "idle"
    /\ ktSeqNo < MaxSequences
    /\ ktState' = "awaitingTab"
    /\ ktSequence' = <<"Alt">>
    /\ startTimeout(ktSeqNo + 1)
    /\ ktSeqNo' = ktSeqNo + 1
    /\ ktAccepted' = ktNow
    /\ UNCHANGED <<ktActiveTab, ktResets, ktNow, ktLast, ktRest>>

\* keydown of Escape while not idle
Escape ==
    /\ ktState # "idle"
    /\ resetState("escape", ktSeqNo)
    /\ UNCHANGED <<ktResets, ktNow, ktSeqNo, ktAccepted, ktRest>>

\* handleKeyPress for a letter key while not idle
handleKeyPress(key) ==
    LET upperKey == toUpperCaseChar(key)
        tabMapping == \E m \in KeyTipMappings : m.tab = "none" /\ m.key = upperKey
        commandMapping == \E m \in KeyTipMappings : m.tab = ktActiveTab /\ m.key = upperKey
    IN \/ /\ ktState = "awaitingTab"
          /\ IF tabMapping
             THEN /\ ktActiveTab' = upperKey
                  /\ ktSequence' = Append(ktSequence, upperKey)
                  /\ ktState' = "awaitingCommand"
                  /\ startTimeout(ktSeqNo)
                  /\ ktAccepted' = ktNow
                  /\ UNCHANGED <<ktResets, ktLast>>
             ELSE /\ resetState("nomatch", ktSeqNo)
                  /\ UNCHANGED <<ktResets, ktAccepted>>
       \/ /\ ktState = "awaitingCommand"
          /\ ktActiveTab # NoTab
          /\ IF commandMapping
             THEN /\ ktSequence' = Append(ktSequence, upperKey)
                  /\ ktState' = "executed"
                  /\ ktResets' = ktResets \cup {[at |-> ktNow + ResetMs, seq |-> ktSeqNo]}
                  /\ ktAccepted' = ktNow
                  /\ UNCHANGED <<ktActiveTab, ktTimeoutRef, ktLast>>
             ELSE /\ resetState("nomatch", ktSeqNo)
                  /\ UNCHANGED <<ktResets, ktAccepted>>

LetterKey ==
    /\ \E key \in KtKeys : handleKeyPress(key)
    /\ UNCHANGED <<ktNow, ktSeqNo, ktRest>>

\* the timer of timeoutRef fires
TimeoutFires ==
    /\ ktTimeoutRef # <<>>
    /\ ktTimeoutRef[1].at <= ktNow
    /\ resetState("timeout", ktTimeoutRef[1].seq)
    /\ UNCHANGED <<ktResets, ktNow, ktSeqNo, ktAccepted, ktRest>>

\* a timer of setTimeout(() => resetState(), 300) fires
ResetFires ==
    /\ \E timer \in ktResets :
          /\ timer.at <= ktNow
          /\ resetState("reset", timer.seq)
          /\ ktResets' = ktResets \ {timer}
    /\ UNCHANGED <<ktNow, ktSeqNo, ktAccepted, ktRest>>

\* time passes, once every timer that is due has fired
KtTick ==
    /\ ktNow + TickMs <= MaxKtTime
    /\ \A i \in 1..Len(ktTimeoutRef) : ktTimeoutRef[i].at > ktNow
    /\ \A timer \in ktResets : timer.at > ktNow
    /\ ktNow' = ktNow + TickMs
    /\ UNCHANGED <<ktState, ktActiveTab, ktSequence, ktTimeoutRef, ktResets, ktSeqNo,
                   ktAccepted, ktLast, ktRest>>

NextKeyTips == Activate \/ Escape \/ LetterKey \/ TimeoutFires \/ ResetFires \/ KtTick

----------------------------------------------------------------------------
(* Specifications *)

\* each specification runs one component, the other two standing idle
ResolverInit == InitResolver /\ IdleEval /\ IdleGrid /\ InitWorkbook /\ InitBackend /\ InitKeyTips
EvalInit == IdleResolver /\ InitEval /\ IdleGrid /\ InitWorkbook /\ InitBackend /\ InitKeyTips
GridInit == IdleResolver /\ IdleEval /\ InitGrid /\ InitWorkbook /\ InitBackend /\ InitKeyTips
WorkbookInit == IdleResolver /\ IdleEval /\ IdleGrid /\ InitWorkbook /\ InitBackend /\ InitKeyTips

SpecResolver == ResolverInit /\ [][NextResolver]_vars

SpecEval == EvalInit /\ [][NextEval]_vars

SpecSheet == GridInit /\ [][NextSheet]_vars
SpecWorkbook == WorkbookInit /\ [][NextWorkbook]_vars
BackendInit == IdleResolver /\ IdleEval /\ IdleGrid /\ InitWorkbook /\ InitBackend /\ InitKeyTips
SpecBackend == BackendInit /\ [][NextBackend]_vars
KeyTipsInit == IdleResolver /\ IdleEval /\ IdleGrid /\ InitWorkbook /\ InitBackend /\ InitKeyTips
SpecKeyTips == KeyTipsInit /\ [][NextKeyTips]_vars

\* a run of the effect, seen by its guard and its parity alone
EffectRuns == recalcPending /\ passParity' = 1 - passParity

\* React runs a scheduled effect: a pending pass is not postponed for ever.
\* RecalcPass is the one action that changes passParity, so this is
\* WF_vars(RecalcPass), stated on what decides it.
SpecRecalc == GridInit /\ [][NextGrid]_vars /\ WF_passParity(EffectRuns)
LoadedInit == IdleResolver /\ IdleEval /\ LoadedGrid /\ InitWorkbook /\ InitBackend /\ InitKeyTips
SpecLoaded == LoadedInit /\ [][NextGrid]_vars /\ WF_passParity(EffectRuns)

----------------------------------------------------------------------------
(* The range resolver's claims, checked under SpecResolver *)

\* the outcome of a parseRange call on the text drawn
rsParts == split(rsStr, ":")
rsStart == parseCellReference(rsParts[1])
rsEnd == parseCellReference(rsParts[2])
rsTwoValid ==
    /\ rsOp = "parseRange"
    /\ Len(rsParts) = 2
    /\ rsStart # Null
    /\ rsEnd # Null

\* the key of the cell at a zero-based column and row
KeyOf(col, row) == getColumnLabel(col) \o IntToStr(row + 1)

ToSet(seq) == {seq[i] : i \in 1..Len(seq)}

\* C6: a range of two valid references resolves to the keys of the rectangle
\* between the smaller and the larger row and column of its corners, in
\* whichever order the corners are written (B2:A1 gives A1, A2, B1, B2).
C6_ReversedCornersNormalised ==
    rsTwoValid =>
        ToSet(rsCells) =
            {KeyOf(c, r) : c \in Min({rsStart.col, rsEnd.col})..Max({rsStart.col, rsEnd.col}),
                           r \in Min({rsStart.row, rsEnd.row})..Max({rsStart.row, rsEnd.row})}

\* C7: a range whose first corner is above and left of (or equal to) its second
\* resolves to rows * cols keys, all distinct, row by row from the top and
\* left to right within a row; A1:B2 gives A1, B1, A2, B2 and A1:A1 gives A1.
C7_RowMajorRectangle ==
    /\ (rsTwoValid /\ rsStart.row <= rsEnd.row /\ rsStart.col <= rsEnd.col) =>
          LET rows == rsEnd.row - rsStart.row + 1
              cols == rsEnd.col - rsStart.col + 1
          IN /\ Len(rsCells) = rows * cols
             /\ Cardinality(ToSet(rsCells)) = rows * cols
             /\ \A k \in 1..Len(rsCells) :
                   rsCells[k] = KeyOf(rsStart.col + ((k - 1) % cols),
                                      rsStart.row + ((k - 1) \div cols))
    /\ (rsOp = "parseRange" /\ rsStr = Str("A1:B2")) =>
          rsCells = <<Str("A1"), Str("B1"), Str("A2"), Str("B2")>>
    /\ (rsOp = "parseRange" /\ rsStr = Str("A1:A1")) => rsCells = <<Str("A1")>>

C7_Witness ==
    /\ rsTwoValid
    /\ rsStr = Str("A1:B2")
    /\ rsCells = <<Str("A1"), Str("B1"), Str("A2"), Str("B2")>>

\* C8: column labels and zero-based column indexes are inverse to each other:
\* the label made for an index parses back to that index, the column parsed
\* from a reference labels back to the reference's letters, and 0, 25 and 26
\* are labelled A, Z and AA.
C8_LabelIndexRoundTrip ==
    /\ rsOp = "getColumnLabel" =>
          /\ parseCellReference(rsLabel \o Str("1")) = [col |-> rsIdx, row |-> 0]
          /\ (rsIdx = 0 => rsLabel = Str("A"))
          /\ (rsIdx = 25 => rsLabel = Str("Z"))
          /\ (rsIdx = 26 => rsLabel = Str("AA"))
    /\ (rsOp = "parseCellReference" /\ rsRef # Null) =>
          getColumnLabel(rsRef.col) = Take(rsStr, PrefixLen(rsStr, UpperChars))

C8_Witness ==
    /\ rsOp = "getColumnLabel"
    /\ rsIdx = 26
    /\ rsLabel = Str("AA")

\* C9: parseRange gives the empty list whenever its text does not split on ':'
\* into exactly two parts, or a part is empty, or a part is no valid reference.
C9_MalformedRangeIsEmpty ==
    (/\ rsOp = "parseRange"
     /\ \/ Len(rsParts) # 2
        \/ \E i \in 1..Len(rsParts) : rsParts[i] = <<>>
        \/ \E i \in 1..Len(rsParts) : parseCellReference(rsParts[i]) = Null)
    => rsCells = <<>>

----------------------------------------------------------------------------
(* The evaluator's claims, checked under SpecEval *)

\* a JavaScript string: a sequence of single characters, and not undefined
IsString(v) == v # Undefined /\ \A i \in 1..Len(v) : Len(v[i]) = 1

evIsFormula == startsWith(evFormula, Str("="))

\* C1: every call returns a string and raises nothing to its caller; a fault
\* raised while the formula is evaluated comes back as the string '#ERROR!'.
C1_NeverThrows ==
    /\ evCalls >= 1 =>
          /\ evOut.type = "return"
          /\ IsString(evOut.value)
          /\ (evIsFormula /\ tryBlock(expressionOf(evFormula), evCells).type = "throw")
                => evOut.value = Str("#ERROR!")
    /\ evCalls = 2 => (evOut2.type = "return" /\ IsString(evOut2.value))

C1_Witness ==
    /\ evCalls >= 1
    /\ evFormula = Str("=ROUND(1,101)")
    /\ tryBlock(expressionOf(evFormula), evCells).type = "throw"
    /\ evOut = Return(Str("#ERROR!"))

\* C3: a formula string that does not start with '=' is returned exactly as
\* it was given, whatever the cell store holds.
C3_NonFormulaUnchanged ==
    (evCalls >= 1 /\ ~evIsFormula) => evOut = Return(evFormula)

C3_Witness ==
    /\ evCalls >= 1
    /\ evFormula = Str(" =1+1")
    /\ evOut = Return(Str(" =1+1"))

C5_SameResultAtAnyTime == evCalls = 2 => evOut2 = evOut

\* C5, amended: the two calls return the same string for every formula whose
\* trimmed, upper-cased expression is neither TODAY() nor NOW().
C5_SameResultUnlessDate ==
    (/\ evCalls = 2
     /\ ~(evIsFormula /\ expressionOf(evFormula) \in {Str("TODAY()"), Str("NOW()")}))
    => evOut2 = evOut

C5_Witness ==
    /\ evCalls = 2
    /\ clock = MaxClock
    /\ evFormula = Str("=TODAY(1)")
    /\ evOut2 = evOut

\* the number a cell contributes: the number its text begins with (the cached
\* displayValue when there is one, else the value), and 0 for a cell that is
\* absent, empty or begins with no number
Coerced(cellId) ==
    LET text == IF cellId \in DOMAIN evCells
                THEN OrElse(evCells[cellId].displayValue, evCells[cellId].value)
                ELSE <<>>
    IN IF text # Undefined /\ Len(text) > 0 /\ text[1] \in DigitChars THEN parseFloat(text) ELSE Num(0)

NoErrorCode(text) == Len(text) > 0 /\ text[1] # "#"

\* C10: SUM over A1:A3 is the sum of what the three cells contribute, a single
\* cell reference gives what its cell contributes, an absent, empty or text
\* cell contributing 0, and neither result is an error code.
C10_LenientCoercion ==
    evCalls >= 1 =>
        /\ expressionOf(evFormula) = Str("SUM(A1:A3)") /\ evIsFormula =>
              /\ evOut.value = NumToStr(NumAdd(NumAdd(Coerced(A1), Coerced(A2)), Coerced(A3)))
              /\ NoErrorCode(evOut.value)
        /\ \A id \in {A1, A2, A3, B1, Str("Z9")} :
              (evIsFormula /\ expressionOf(evFormula) = id) =>
                  /\ evOut.value = NumToStr(Coerced(id))
                  /\ NoErrorCode(evOut.value)
                  /\ (id \notin DOMAIN evCells \/ id = B1) => evOut.value = Str("0")

C10_Witness ==
    /\ evCalls >= 1
    /\ evFormula = Str("=SUM(A1:A3)")
    /\ evCells = StoreOf(Plain("1"), Plain("2"), Plain("x"), Absent)
    /\ evOut.value = Str("3")

----------------------------------------------------------------------------
(* The recalculation driver's claim, checked under SpecRecalc *)

\* C2: the driver performs finitely many passes after an edit: whenever a
\* pass is pending, a pass that changes nothing follows, self-referencing
\* and cyclic formulas included.
C2_PassesTerminate == recalcPending ~> ~recalcPending

----------------------------------------------------------------------------
(* The evaluator's functions, checked under SpecEval *)

\* the first call was made with this formula text
evCalled(text) == evCalls >= 1 /\ evFormula = Str(text)

\* cell A1 was typed in as this text
evA1Is(text) == A1 \in DOMAIN evCells /\ evCells[A1] = Plain(text)

\* C11: =IF(A1>5,"big","small") gives big when A1 holds 10 and small when A1
\* holds 3: the chosen branch without its quotes, spelled as in the formula.
C11_IfBranchAsWritten ==
    evCalled("=IF(A1>5,\"big\",\"small\")") =>
        /\ evA1Is("10") => evOut.value = Str("big")
        /\ evA1Is("3") => evOut.value = Str("small")

\* the text a cell shows: its displayValue, else its value, else nothing
evTextOf(cellId) ==
    IF cellId \in DOMAIN evCells
    THEN OrElse(evCells[cellId].displayValue, evCells[cellId].value)
    ELSE <<>>

\* what a lookup of v in the first numRows rows of columns A.. should give:
\* column k of the topmost row whose column A shows v, or #N/A
evLookup(v, numRows, k) ==
    LET rows == {r \in 0..(numRows - 1) : evTextOf(KeyOf(0, r)) = v}
    IN IF rows = {} THEN Str("#N/A") ELSE evTextOf(KeyOf(k - 1, Min(rows)))

\* C12: VLOOKUP(v, range, k, flag) gives the text of column k of the topmost
\* row of the range whose first column shows v, and #N/A when no row does;
\* "Bob" looked up in A1:B3 with A1 = Bob and B1 = Manager gives Manager.
C12_VlookupFindsRow ==
    /\ evCalled("=VLOOKUP(\"Bob\",A1:B3,2,FALSE)") => evOut.value = evLookup(Str("Bob"), 3, 2)
    /\ evCalled("=VLOOKUP(1,A1:B1,2,0)") => evOut.value = evLookup(Str("1"), 1, 2)
    /\ (evCalled("=VLOOKUP(\"Bob\",A1:B3,2,FALSE)") /\ evA1Is("Bob")
          /\ B1 \in DOMAIN evCells /\ evCells[B1] = Plain("Manager"))
       => evOut.value = Str("Manager")

\* the relation an operator of IF names, on integers
Related(op, x, y) ==
    CASE op = ">" -> x > y
      [] op = "<" -> x < y
      [] op = ">=" -> x >= y
      [] op = "<=" -> x <= y
      [] op = "==" \/ op = "=" -> x = y
      [] op = "!=" -> x # y

IfOperators == {">", "<", ">=", "<=", "==", "=", "!="}

\* C13: IF(A1 op 3, 1, 0) gives its true branch exactly when the number A1
\* contributes stands in relation op to 3, and its false branch otherwise,
\* for op one of > < >= <= == = !=, = and == both being numeric equality.
C13_IfSelectsByRelation ==
    \A op \in IfOperators :
        (evCalls >= 1 /\ evFormula = Str("=IF(A1") \o Str(op) \o Str("3,1,0)")) =>
            evOut.value = IF Related(op, Coerced(A1).n, 3) THEN Str("1") ELSE Str("0")

C13_Witness ==
    /\ evCalled("=IF(A1<=3,1,0)")
    /\ evA1Is("3")
    /\ evOut.value = Str("1")

\* C14: arithmetic follows operator precedence and parentheses, not the order
\* written: =2+2*3 gives 8 (not 12), =(2+2)*3 gives 12, =10-2*3 gives 4 and
\* =2*(3+4)-8/4/2 gives 13.
C14_StandardPrecedence ==
    /\ evCalled("=2+2*3") => evOut.value = Str("8")
    /\ evCalled("=(2+2)*3") => evOut.value = Str("12")
    /\ evCalled("=10-2*3") => evOut.value = Str("4")
    /\ evCalled("=2*(3+4)-8/4/2") => evOut.value = Str("13")

C14_Witness == evCalled("=2+2*3") /\ evOut.value = Str("8")

\* C15: a formula that is no recognised call, no single reference and no
\* well-formed arithmetic gives #NAME?: a call of the unknown name FOO with a
\* range or a number as argument, an unclosed call and a bare unknown name.
C15_UnsupportedIsNameError ==
    \A t \in {"=FOO(A1:B2)", "=FOO(1)", "=FOO(1", "=FOO"} :
        evCalled(t) => evOut.value = Str("#NAME?")

\* C16: a division by zero in the arithmetic fallback gives #ERROR!.
C16_DivisionByZeroIsError ==
    \A t \in {"=1/0", "=5/(2-2)"} :
        evCalled(t) => evOut.value = Str("#ERROR!")

evA2IsBlank == A2 \notin DOMAIN evCells \/ evCells[A2] = Plain("")

\* C17: AVERAGE, MIN and MAX give 0, and no error code, over a range that
\* expands to no cell (the malformed range X), and over the range A2:A2 when
\* A2 is absent or empty, which counts as one cell of value 0.
C17_EmptyAggregatesAreZero ==
    /\ \A t \in {"=AVERAGE(X)", "=MIN(X)", "=MAX(X)"} :
           evCalled(t) => evOut.value = Str("0")
    /\ \A t \in {"=AVERAGE(A2:A2)", "=MIN(A2:A2)", "=MAX(A2:A2)"} :
           (evCalled(t) /\ evA2IsBlank) => evOut.value = Str("0")

C17_WitnessNoCell ==
    /\ evCalled("=MIN(X)")
    /\ evOut.value = Str("0")

C17_Witness ==
    /\ evCalled("=MAX(A2:A2)")
    /\ A2 \in DOMAIN evCells /\ evCells[A2] = Plain("")
    /\ evOut.value = Str("0")

----------------------------------------------------------------------------
(* The reference parser, checked under SpecResolver *)

\* C18: parsing a reference gives what parsing its upper-case spelling gives
\* (a1 is column 0, row 0, as A1 is), and null for a string that is not
\* letters followed by digits.
C18_ReferenceCaseInsensitive ==
    rsOp = "parseCellReference" =>
        /\ rsRef = parseCellReference(toUpperCase(rsStr))
        /\ rsStr = Str("a1") => rsRef = [col |-> 0, row |-> 0]

----------------------------------------------------------------------------
(* The sheet's claims, checked under SpecSheet *)

\* the content of a cell as the formula bar shows it: formula || value || ''
contentOf(cellData) == OrElse(cellData.formula, OrElse(cellData.value, <<>>))

\* C19: in every reachable cell store, after formula-bar edits, undo, redo,
\* cut, paste, delete, drag-fill and imports, a cell has formula set exactly
\* when its content begins with '='.
C19_FormulaIffEnteredWithEquals ==
    \A id \in DOMAIN cells :
        (cells[id].formula # Undefined) <=> startsWith(contentOf(cells[id]), Str("="))

\* C20: after k formula-bar edits in a row and then k undos, every cell's
\* value and formula are those before the first of the edits, an absent cell
\* counting as empty; after k redos more they are those after the last edit.
C20_UndoRedoInverse ==
    /\ (editRun.phase = "undos" /\ editRun.n = editRun.k) => View(cells) = editRun.before
    /\ (editRun.phase = "redos" /\ editRun.n = editRun.k) => View(cells) = editRun.after

C20_Witness ==
    /\ editRun.phase = "redos"
    /\ editRun.k = 2
    /\ editRun.n = 2
    /\ editRun.before # editRun.after
    /\ View(cells) = editRun.after
    /\ \E id \in DOMAIN cells : cells[id].formula # Undefined

\* C21: after a cut, paste, delete or drag-fill that changed a cell's content,
\* one undo gives every cell the value and formula it had immediately before
\* that operation.
C21_UndoRestoresAfterCutPasteDeleteFill ==
    editRun.phase = "opUndone" => View(cells) = editRun.before


\* C22: an operation begun while a sheet is active (edit, format or colour
\* change, image change, cut, paste, delete, import, undo, redo) leaves the
\* cells, images, history and history index of every other sheet as they were.
C22_SheetsIndependent ==
    [][\A s \in SheetNames \ {lastOp'.sheet} :
          /\ (s \in DOMAIN sheetStates') = (s \in DOMAIN sheetStates)
          /\ s \in DOMAIN sheetStates => sheetStates'[s] = sheetStates[s]]_vars

\* an import begun on one sheet has resolved while another sheet, holding
\* different data, is shown
C22_Witness ==
    /\ lastOp.kind \in {"import", "excel", "image-add"}
    /\ lastOp.sheet # activeSheet
    /\ activeSheet \in DOMAIN sheetStates
    /\ sheetStates[activeSheet] # sheetStates[lastOp.sheet]
    /\ sheetStates[activeSheet].history # <<>>

\* C25: on every sheet -1 <= historyIndex <= history.length - 1, and right after
\* a recorded action (edit, format, font colour, fill colour, image add, update
\* or delete) historyIndex = history.length - 1.
C25_HistoryIndexInRange ==
    /\ \A s \in DOMAIN sheetStates :
          /\ -1 <= sheetStates[s].historyIndex
          /\ sheetStates[s].historyIndex <= Len(sheetStates[s].history) - 1
    /\ lastOp.kind \in RecordingKinds =>
          sheetStates[lastOp.sheet].historyIndex = Len(sheetStates[lastOp.sheet].history) - 1

\* an action recorded after an undo: the undone entry is gone from the history
C25_Witness ==
    /\ lastOp.kind \in RecordingKinds
    /\ wbOps >= 2
    /\ Len(sheetStates[lastOp.sheet].history) = 1


\* the cells a formula names: the cell ids written in its text
mentions(formula, cellId) ==
    \E i \in 1..(Len(formula) - Len(cellId) + 1) : SubSeq(formula, i, i + Len(cellId) - 1) = cellId

readsFrom(store, id, other) ==
    /\ id \in DOMAIN store
    /\ store[id].formula # Undefined
    /\ mentions(store[id].formula, other)

\* no formula's inputs include its own cell, directly or through other formulas
Acyclic(store) ==
    LET ids == DOMAIN store
        Reach1 == {p \in ids \X ids : readsFrom(store, p[1], p[2])}
        Step(R) == R \cup {p \in ids \X ids : \E m \in ids : <<p[1], m>> \in R /\ <<m, p[2]>> \in Reach1}
        Closure == Step(Step(Step(Reach1)))
    IN \A id \in ids : <<id, id>> \notin Closure

\* every formula cell shows the result of its formula on this store
Settled(store) ==
    \A id \in DOMAIN store :
        (store[id].formula # Undefined /\ store[id].formula # <<>>) =>
            store[id].displayValue = evaluateFormula(store[id].formula, id, store).value

\* C23: with no formula reading its own cell directly or transitively, the
\* recalculation driver stops after finitely many passes, and where it has
\* stopped every formula cell's displayValue is evaluateFormula of its formula
\* on the final store.
C23_AcyclicRecalcSettles ==
    /\ (recalcPending /\ Acyclic(cells)) ~> (~recalcPending \/ ~Acyclic(cells))
    /\ [](~recalcPending /\ Acyclic(cells) => Settled(cells))

\* the chain A3 = A2 = A1 has settled on the value typed into A1 after loading
C23_Witness ==
    /\ ~recalcPending
    /\ Acyclic(cells)
    /\ editsDone >= 1
    /\ {A1, A2, A3} \subseteq DOMAIN cells
    /\ cells[A1].value = Str("1")
    /\ cells[A2].formula = Str("=A1")
    /\ cells[A3].formula = Str("=A2")
    /\ cells[A3].displayValue = Str("1")


\* the formula is no recognized function call and no single cell reference
reachesFallback(formula) ==
    /\ startsWith(formula, Str("="))
    /\ LET Falls(expression) ==
               /\ FirstCall(expression, AggregateNames) = 0
               /\ ~isCall(expression, Str("ROUND"))
               /\ FirstCall(expression, TextNames) = 0
               /\ ~isToday(expression)
               /\ ~isNow(expression)
               /\ matchIf(expression) = NoMatch
               /\ matchVlookup(expression) = NoMatch
               /\ parseCellReference(expression) = Null
       IN Falls(expressionOf(formula))

\* C24: a formula that reaches the arithmetic fallback gives the same result
\* on every cell store, that of the empty store; '=A1+B1' gives 2, the sum of
\* the digits left of 'A1+B1', whatever A1 and B1 hold.
C24_FallbackIgnoresStore ==
    (evCalls >= 1 /\ reachesFallback(evFormula)) =>
        /\ evOut = evaluateFormula(evFormula, evCellId, <<>>)
        /\ evCalled("=A1+B1") => evOut.value = Str("2")

\* '=A1+B1' evaluated where A1 holds 10 and B1 holds text
C24_Witness ==
    /\ evCalled("=A1+B1")
    /\ evA1Is("10")
    /\ B1 \in DOMAIN evCells
    /\ evOut.value = Str("2")


\* a VLOOKUP of 1 in A1:B2 with this column index, where A1 holds 1: the first
\* row of the range matches
evLooksUpRow1(k) == evCalled("=VLOOKUP(1,A1:B2," \o k \o ",0)") /\ evA1Is("1")

\* C26: when VLOOKUP finds a matching row, the text it returns is that of a
\* cell of the matching row, for every column index k >= 0 in the formula; an
\* index outside 1..number of columns never yields a cell of another row.
C26_VlookupStaysInMatchingRow ==
    \A k \in {"0", "3"} :
        evLooksUpRow1(k) => evOut.value \in {getCellText(A1, evCells), getCellText(B1, evCells)}


\* the spreadsheet the last call named, as stored before the call and after it
beBefore == IF beLast.id \in DOMAIN beLast.before THEN beLast.before[beLast.id] ELSE Null
beAfter == IF beLast.id \in DOMAIN spreadsheets THEN spreadsheets[beLast.id] ELSE Null

\* C27: a caller who is not the owner of a spreadsheet and holds only viewer
\* permission or none cannot change any stored state of it (cells, sheets,
\* images, permissions, activeSheet); share, revoke and delete of a
\* spreadsheet take effect only for its owner.
C27_ViewersChangeNothing ==
    beBefore # Null =>
        /\ ~hasSpreadsheetPermission(beBefore, beLast.caller, "editor") => beAfter = beBefore
        /\ (beLast.method \in {"shareSpreadsheet", "revokeSpreadsheetAccess", "deleteSpreadsheet"}
            /\ beLast.caller # beBefore.owner) => beAfter = beBefore

\* C28: every stored spreadsheet has at least one sheet, and its activeSheet
\* is the name of one of its sheets.
C28_ActiveSheetExists ==
    \A id \in DOMAIN spreadsheets :
        /\ DOMAIN spreadsheets[id].sheets # {}
        /\ spreadsheets[id].activeSheet \in DOMAIN spreadsheets[id].sheets

\* the format stored for the cell the last call named, in the given spreadsheet
beFormat(spreadsheet) ==
    IF spreadsheet # Null /\ beLast.sheet \in DOMAIN spreadsheet.sheets
       /\ beLast.cell \in DOMAIN spreadsheet.sheets[beLast.sheet].cells
    THEN spreadsheet.sheets[beLast.sheet].cells[beLast.cell].format
    ELSE Null

\* C29: saving a cell's content keeps its formatting: after the saveCell of a
\* formula-bar edit of a cell that has a format, the format stored for the cell
\* is the one stored before, which the local cell store keeps for it.
C29_SaveCellKeepsFormat ==
    (beLast.method = "saveCell" /\ ~beLast.trapped /\ beFormat(beBefore) # Null) =>
        beFormat(beAfter) = beFormat(beBefore)


\* C30: a KeyTip sequence that has been started (awaitingTab or
\* awaitingCommand) returns to idle only through Escape, a letter key that
\* matches no mapping, or 2.5 seconds passing since its last accepted key; a
\* timer armed during an earlier sequence never resets a later one.
C30_OnlyOwnTimerResets ==
    ktLast.from \in {"awaitingTab", "awaitingCommand"} =>
        \/ ktLast.cause \in {"escape", "nomatch"}
        \/ /\ ktLast.cause = "timeout"
           /\ ktLast.armedIn = ktLast.seq
           /\ ktLast.elapsed >= TimeoutMs

=============================================================================
